---- MODULE Spec2Model ----
(***************************************************************************)
(* PEM key import of CycloneCRYPTO (pkix/pem_import.c).                    *)
(*                                                                         *)
(* Every operation of pem_import.c is a straight-line pipeline over the    *)
(* collaborators pemDecodeFile, cryptoAllocMem, pemDecryptMessage,         *)
(* pkcs5Decrypt, the ASN.1 / PKCS #8 / X.509 parsers and the key import    *)
(* routines.  A call is modelled as a record that walks through the stages *)
(* of its function, one collaborator invocation per step; the log field    *)
(* records every collaborator invocation with its arguments and result.    *)
(***************************************************************************)
EXTENDS Naturals, Sequences, FiniteSets, TLC

VARIABLES calls, input, heap, encSupport

vars == <<calls, input, heap, encSupport>>

(***************************************************************************)
(* Bounds of the model                                                     *)
(***************************************************************************)

\* Length in bytes of a well-formed cleartext structure
BaseLen == 4

\* Bytes of padding a block cipher adds to a cleartext
PadLen == 2

\* Bytes of an EncryptedPrivateKeyInfo envelope around the encrypted data
EnvelopeLen == 3

\* Number of buffers the allocator can hand out
NumBufs == 2

CallIds == {1, 2}

BufIds == 1..NumBufs

(***************************************************************************)
(* Error codes (error_t)                                                   *)
(***************************************************************************)

NO_ERROR == "NO_ERROR"

ERROR_INVALID_PARAMETER == "ERROR_INVALID_PARAMETER"

ERROR_OUT_OF_MEMORY == "ERROR_OUT_OF_MEMORY"

ERROR_END_OF_FILE == "ERROR_END_OF_FILE"

ERROR_DECRYPTION_FAILED == "ERROR_DECRYPTION_FAILED"

ERROR_WRONG_IDENTIFIER == "ERROR_WRONG_IDENTIFIER"

ERROR_INVALID_SYNTAX == "ERROR_INVALID_SYNTAX"

ERROR_INVALID_ENCODING == "ERROR_INVALID_ENCODING"

(***************************************************************************)
(* Labels, algorithm families and key types                                *)
(***************************************************************************)

LabelSeq ==
    << "RSA PUBLIC KEY", "PUBLIC KEY", "RSA PRIVATE KEY", "DSA PRIVATE KEY",
       "EC PRIVATE KEY", "PRIVATE KEY", "ENCRYPTED PRIVATE KEY",
       "EC PARAMETERS", "DH PARAMETERS", "CERTIFICATE", "X509 CRL",
       "CERTIFICATE REQUEST" >>

Labels == { LabelSeq[i] : i \in 1..Len(LabelSeq) }

LabelId(l) == CHOOSE i \in 1..Len(LabelSeq) : LabelSeq[i] = l

\* Algorithm identifiers (OIDs) a generic container can carry; "NONE" is an
\* identifier of no known family
Algs == {"RSA", "DSA", "EC", "EDDSA", "NONE"}

X509_KEY_TYPE_UNKNOWN == "X509_KEY_TYPE_UNKNOWN"

\* x509GetPublicKeyType: the key type of an algorithm identifier
x509GetPublicKeyType(oid) ==
    CASE oid = "RSA" -> "X509_KEY_TYPE_RSA"
      [] oid = "DSA" -> "X509_KEY_TYPE_DSA"
      [] oid = "EC" -> "X509_KEY_TYPE_EC"
      [] oid = "EDDSA" -> "X509_KEY_TYPE_ED25519"
      [] OTHER -> X509_KEY_TYPE_UNKNOWN

(***************************************************************************)
(* Input text: one container or none under each label                      *)
(***************************************************************************)

\* st: "absent" (no container with the label), "bad" (a container the armor
\*     decoder rejects), "ok" (a container the armor decoder decodes)
\* marker: the header carries "Proc-Type: 4,ENCRYPTED"
\* shape: "ok", or the defect of the structure inside the container
\* alg: the algorithm identifier carried by a generic structure
Container(st, marker, shape, alg) ==
    [st |-> st, marker |-> marker, shape |-> shape, alg |-> alg]

Absent == Container("absent", FALSE, "ok", "NONE")

Bad == Container("bad", FALSE, "ok", "NONE")

LegacyPrivateLabels == {"RSA PRIVATE KEY", "DSA PRIVATE KEY", "EC PRIVATE KEY"}

\* The algorithm an algorithm-specific label stands for
LabelAlg(l) ==
    CASE l \in {"RSA PRIVATE KEY", "RSA PUBLIC KEY"} -> "RSA"
      [] l = "DSA PRIVATE KEY" -> "DSA"
      [] l \in {"EC PRIVATE KEY", "EC PARAMETERS"} -> "EC"
      [] OTHER -> "NONE"

\* The containers that can stand under label l
Variants(l) ==
    {Absent, Bad} \cup
    CASE l \in LegacyPrivateLabels ->
           { Container("ok", m, s, LabelAlg(l)) :
               m \in BOOLEAN, s \in {"ok", "trunc"} }
      [] l \in {"PRIVATE KEY", "PUBLIC KEY"} ->
           { Container("ok", FALSE, "ok", a) : a \in Algs } \cup
           { Container("ok", FALSE, "trunc", "NONE"),
             Container("ok", TRUE, "ok", "RSA") }
      [] l = "ENCRYPTED PRIVATE KEY" ->
           { Container("ok", FALSE, "ok", a) : a \in Algs } \cup
           { Container("ok", FALSE, s, "NONE") : s \in {"trunc", "badenv"} } \cup
           { Container("ok", TRUE, "ok", "RSA") }
      [] l \in {"RSA PUBLIC KEY", "EC PARAMETERS"} ->
           { Container("ok", FALSE, s, LabelAlg(l)) : s \in {"ok", "trunc"} }
      [] l = "DH PARAMETERS" ->
           { Container("ok", FALSE, s, "NONE") :
               s \in {"ok", "noseq", "badp", "badg"} }
      [] OTHER -> { Container("ok", FALSE, "ok", "NONE") }

EmptyInput == [l \in Labels |-> Absent]

(***************************************************************************)
(* The operations of pem_import.c: their candidate labels, in the order    *)
(* the code tests them, and what the branch of each label does             *)
(***************************************************************************)

\* kind: "legacy"   filling decode with header, marker test, pemDecryptMessage,
\*                  parser, import
\*       "plain"    filling decode, parser, import (or key type classification)
\*       "wrapped"  filling decode, envelope parser, pkcs5Decrypt, parser, import
\*       "typeonly" the key type is known from the label alone
\*       "dh"       filling decode, asn1ReadSequence, asn1ReadMpi p, asn1ReadMpi g
\*       "raw"      a single decode into the caller's buffer
\* oid: the algorithm identifier the branch stores in the key information
\*      before the import, or the algorithm a "typeonly" branch reports
\*      ("" when it stores none)
Branch(label, kind, parser, oid, importer) ==
    [label |-> label, kind |-> kind, parser |-> parser, oid |-> oid,
     importer |-> importer]

\* chain: TRUE when the labels are tested by if / else if with a final
\*        else error = ERROR_END_OF_FILE; FALSE when the only sizing decode's
\*        status is kept in error
\* key: TRUE when the operation fills a key object, password: TRUE when it
\*        takes a password
Operation(name, chain, family, key, password, branches) ==
    [name |-> name, chain |-> chain, family |-> family, key |-> key,
     password |-> password, branches |-> branches]

pemImportCertificate ==
    Operation("pemImportCertificate", FALSE, "NONE", FALSE, FALSE,
        << Branch("CERTIFICATE", "raw", "", "", "") >>)

pemImportCrl ==
    Operation("pemImportCrl", FALSE, "NONE", FALSE, FALSE,
        << Branch("X509 CRL", "raw", "", "", "") >>)

pemImportCsr ==
    Operation("pemImportCsr", FALSE, "NONE", FALSE, FALSE,
        << Branch("CERTIFICATE REQUEST", "raw", "", "", "") >>)

pemImportDhParameters ==
    Operation("pemImportDhParameters", FALSE, "NONE", TRUE, FALSE,
        << Branch("DH PARAMETERS", "dh", "asn1ReadSequence", "",
               "asn1ReadMpi") >>)

\* Faulty variant of pemImportRsaPublicKey: the generic label is tested
\* before the algorithm-specific one
pemImportRsaPublicKeyGenericFirst ==
    Operation("pemImportRsaPublicKey", TRUE, "RSA", TRUE, FALSE,
        << Branch("PUBLIC KEY", "plain", "x509ParseSubjectPublicKeyInfo", "",
               "x509ImportRsaPublicKey"),
           Branch("RSA PUBLIC KEY", "plain", "x509ParseRsaPublicKey", "RSA",
               "x509ImportRsaPublicKey") >>)

pemImportRsaPublicKey ==
    Operation("pemImportRsaPublicKey", TRUE, "RSA", TRUE, FALSE,
        << Branch("RSA PUBLIC KEY", "plain", "x509ParseRsaPublicKey", "RSA",
               "x509ImportRsaPublicKey"),
           Branch("PUBLIC KEY", "plain", "x509ParseSubjectPublicKeyInfo", "",
               "x509ImportRsaPublicKey") >>)

\* Faulty variant of pemImportRsaPrivateKey: the generic label is tested
\* before the algorithm-specific one
pemImportRsaPrivateKeyGenericFirst ==
    Operation("pemImportRsaPrivateKey", TRUE, "RSA", TRUE, TRUE,
        << Branch("PRIVATE KEY", "plain", "pkcs8ParsePrivateKeyInfo", "",
               "pkcs8ImportRsaPrivateKey"),
           Branch("RSA PRIVATE KEY", "legacy", "pkcs8ParseRsaPrivateKey", "RSA",
               "pkcs8ImportRsaPrivateKey"),
           Branch("ENCRYPTED PRIVATE KEY", "wrapped", "pkcs8ParsePrivateKeyInfo", "",
               "pkcs8ImportRsaPrivateKey") >>)

\* Faulty variant of pemImportRsaPrivateKey: the "PRIVATE KEY" branch reads
\* the header and decrypts like the legacy branch
pemImportRsaPrivateKeyHeaderInGeneric ==
    Operation("pemImportRsaPrivateKey", TRUE, "RSA", TRUE, TRUE,
        << Branch("RSA PRIVATE KEY", "legacy", "pkcs8ParseRsaPrivateKey", "RSA",
               "pkcs8ImportRsaPrivateKey"),
           Branch("PRIVATE KEY", "legacy", "pkcs8ParsePrivateKeyInfo", "",
               "pkcs8ImportRsaPrivateKey"),
           Branch("ENCRYPTED PRIVATE KEY", "wrapped", "pkcs8ParsePrivateKeyInfo", "",
               "pkcs8ImportRsaPrivateKey") >>)

\* Faulty variant of pemImportRsaPrivateKey: the branches hand the parsed
\* structure to the EC importer
pemImportRsaPrivateKeyEcImporter ==
    Operation("pemImportRsaPrivateKey", TRUE, "EC", TRUE, TRUE,
        << Branch("RSA PRIVATE KEY", "legacy", "pkcs8ParseRsaPrivateKey", "RSA",
               "pkcs8ImportEcPrivateKey"),
           Branch("PRIVATE KEY", "plain", "pkcs8ParsePrivateKeyInfo", "",
               "pkcs8ImportEcPrivateKey"),
           Branch("ENCRYPTED PRIVATE KEY", "wrapped", "pkcs8ParsePrivateKeyInfo", "",
               "pkcs8ImportEcPrivateKey") >>)

pemImportRsaPrivateKey ==
    Operation("pemImportRsaPrivateKey", TRUE, "RSA", TRUE, TRUE,
        << Branch("RSA PRIVATE KEY", "legacy", "pkcs8ParseRsaPrivateKey", "RSA",
               "pkcs8ImportRsaPrivateKey"),
           Branch("PRIVATE KEY", "plain", "pkcs8ParsePrivateKeyInfo", "",
               "pkcs8ImportRsaPrivateKey"),
           Branch("ENCRYPTED PRIVATE KEY", "wrapped", "pkcs8ParsePrivateKeyInfo", "",
               "pkcs8ImportRsaPrivateKey") >>)

pemImportDsaPublicKey ==
    Operation("pemImportDsaPublicKey", FALSE, "DSA", TRUE, FALSE,
        << Branch("PUBLIC KEY", "plain", "x509ParseSubjectPublicKeyInfo", "",
               "x509ImportDsaPublicKey") >>)

pemImportDsaPrivateKey ==
    Operation("pemImportDsaPrivateKey", TRUE, "DSA", TRUE, TRUE,
        << Branch("DSA PRIVATE KEY", "legacy", "pkcs8ParseDsaPrivateKey", "DSA",
               "pkcs8ImportDsaPrivateKey"),
           Branch("PRIVATE KEY", "plain", "pkcs8ParsePrivateKeyInfo", "",
               "pkcs8ImportDsaPrivateKey"),
           Branch("ENCRYPTED PRIVATE KEY", "wrapped", "pkcs8ParsePrivateKeyInfo", "",
               "pkcs8ImportDsaPrivateKey") >>)

\* Faulty variant of pemImportEcParameters: the "EC PRIVATE KEY" branch
\* reads the header and decrypts
pemImportEcParametersDecrypting ==
    Operation("pemImportEcParameters", TRUE, "EC", TRUE, FALSE,
        << Branch("EC PARAMETERS", "plain", "x509ParseEcParameters", "",
               "x509ImportEcParameters"),
           Branch("EC PRIVATE KEY", "legacy", "pkcs8ParseEcPrivateKey", "",
               "x509ImportEcParameters"),
           Branch("PRIVATE KEY", "plain", "pkcs8ParsePrivateKeyInfo", "",
               "x509ImportEcParameters"),
           Branch("PUBLIC KEY", "plain", "x509ParseSubjectPublicKeyInfo", "",
               "x509ImportEcParameters") >>)

pemImportEcParameters ==
    Operation("pemImportEcParameters", TRUE, "EC", TRUE, FALSE,
        << Branch("EC PARAMETERS", "plain", "x509ParseEcParameters", "",
               "x509ImportEcParameters"),
           Branch("EC PRIVATE KEY", "plain", "pkcs8ParseEcPrivateKey", "",
               "x509ImportEcParameters"),
           Branch("PRIVATE KEY", "plain", "pkcs8ParsePrivateKeyInfo", "",
               "x509ImportEcParameters"),
           Branch("PUBLIC KEY", "plain", "x509ParseSubjectPublicKeyInfo", "",
               "x509ImportEcParameters") >>)

pemImportEcPublicKey ==
    Operation("pemImportEcPublicKey", FALSE, "EC", TRUE, FALSE,
        << Branch("PUBLIC KEY", "plain", "x509ParseSubjectPublicKeyInfo", "",
               "x509ImportEcPublicKey") >>)

pemImportEcPrivateKey ==
    Operation("pemImportEcPrivateKey", TRUE, "EC", TRUE, TRUE,
        << Branch("EC PRIVATE KEY", "legacy", "pkcs8ParseEcPrivateKey", "EC",
               "pkcs8ImportEcPrivateKey"),
           Branch("PRIVATE KEY", "plain", "pkcs8ParsePrivateKeyInfo", "",
               "pkcs8ImportEcPrivateKey"),
           Branch("ENCRYPTED PRIVATE KEY", "wrapped", "pkcs8ParsePrivateKeyInfo", "",
               "pkcs8ImportEcPrivateKey") >>)

pemImportEddsaPublicKey ==
    Operation("pemImportEddsaPublicKey", FALSE, "EDDSA", TRUE, FALSE,
        << Branch("PUBLIC KEY", "plain", "x509ParseSubjectPublicKeyInfo", "",
               "x509ImportEddsaPublicKey") >>)

\* Faulty variant of pemImportEddsaPrivateKey: the "PRIVATE KEY" branch
\* reads the header and decrypts
pemImportEddsaPrivateKeyHeaderInGeneric ==
    Operation("pemImportEddsaPrivateKey", TRUE, "EDDSA", TRUE, TRUE,
        << Branch("PRIVATE KEY", "legacy", "pkcs8ParsePrivateKeyInfo", "",
               "pkcs8ImportEddsaPrivateKey"),
           Branch("ENCRYPTED PRIVATE KEY", "wrapped", "pkcs8ParsePrivateKeyInfo", "",
               "pkcs8ImportEddsaPrivateKey") >>)

pemImportEddsaPrivateKey ==
    Operation("pemImportEddsaPrivateKey", TRUE, "EDDSA", TRUE, TRUE,
        << Branch("PRIVATE KEY", "plain", "pkcs8ParsePrivateKeyInfo", "",
               "pkcs8ImportEddsaPrivateKey"),
           Branch("ENCRYPTED PRIVATE KEY", "wrapped", "pkcs8ParsePrivateKeyInfo", "",
               "pkcs8ImportEddsaPrivateKey") >>)

pemGetPublicKeyType ==
    Operation("pemGetPublicKeyType", TRUE, "NONE", FALSE, FALSE,
        << Branch("RSA PUBLIC KEY", "typeonly", "", "RSA", ""),
           Branch("PUBLIC KEY", "plain", "x509ParseSubjectPublicKeyInfo", "",
               "x509GetPublicKeyType") >>)

\* Faulty variant of pemGetPrivateKeyType: an "ENCRYPTED PRIVATE KEY"
\* container is tried as a fifth label
pemGetPrivateKeyTypeWithEncrypted ==
    Operation("pemGetPrivateKeyType", TRUE, "NONE", FALSE, FALSE,
        << Branch("RSA PRIVATE KEY", "typeonly", "", "RSA", ""),
           Branch("DSA PRIVATE KEY", "typeonly", "", "DSA", ""),
           Branch("EC PRIVATE KEY", "typeonly", "", "EC", ""),
           Branch("PRIVATE KEY", "plain", "pkcs8ParsePrivateKeyInfo", "",
               "x509GetPublicKeyType"),
           Branch("ENCRYPTED PRIVATE KEY", "wrapped", "pkcs8ParsePrivateKeyInfo",
               "", "x509GetPublicKeyType") >>)

pemGetPrivateKeyType ==
    Operation("pemGetPrivateKeyType", TRUE, "NONE", FALSE, FALSE,
        << Branch("RSA PRIVATE KEY", "typeonly", "", "RSA", ""),
           Branch("DSA PRIVATE KEY", "typeonly", "", "DSA", ""),
           Branch("EC PRIVATE KEY", "typeonly", "", "EC", ""),
           Branch("PRIVATE KEY", "plain", "pkcs8ParsePrivateKeyInfo", "",
               "x509GetPublicKeyType") >>)

Operations ==
    { pemImportCertificate, pemImportCrl, pemImportCsr, pemImportDhParameters,
      pemImportRsaPublicKey, pemImportRsaPrivateKey, pemImportDsaPublicKey,
      pemImportDsaPrivateKey, pemImportEcParameters, pemImportEcPublicKey,
      pemImportEcPrivateKey, pemImportEddsaPublicKey, pemImportEddsaPrivateKey,
      pemGetPublicKeyType, pemGetPrivateKeyType }

OpNames == { o.name : o \in Operations }

\* The operation a call runs
Op(name) == CHOOSE o \in Operations : o.name = name

CandidateLabels(name) ==
    { Op(name).branches[i].label : i \in 1..Len(Op(name).branches) }

PrivateKeyImports ==
    { "pemImportRsaPrivateKey", "pemImportDsaPrivateKey",
      "pemImportEcPrivateKey", "pemImportEddsaPrivateKey" }

PublicKeyImports ==
    { "pemImportRsaPublicKey", "pemImportDsaPublicKey",
      "pemImportEcPublicKey", "pemImportEddsaPublicKey" }

KeyImports == { o.name : o \in { p \in Operations : p.key } }

TypeQueries == {"pemGetPublicKeyType", "pemGetPrivateKeyType"}

(***************************************************************************)
(* Collaborators: armor decoder, decryption primitives, parsers, importers *)
(***************************************************************************)

\* What a buffer holds.  form: "none" (nothing decoded yet), "plain" (a
\* cleartext structure), "cipher" (encrypted data), "envelope" (an
\* EncryptedPrivateKeyInfo), "garbage" (the output of a failed decryption);
\* lab: the label of the container the bytes come from
Content(form, lab, shape, alg) ==
    [form |-> form, lab |-> lab, shape |-> shape, alg |-> alg]

NoContent == Content("none", "", "ok", "NONE")

\* Length in bytes of a content
ContentLen(d) ==
    (IF d.shape = "ok" THEN BaseLen ELSE BaseLen - 1)
    + (IF d.form \in {"cipher", "envelope"} THEN PadLen ELSE 0)
    + (IF d.form = "envelope" THEN EnvelopeLen ELSE 0)

\* The decoded bytes of the container under label l
Payload(l, cont) ==
    Content(IF l = "ENCRYPTED PRIVATE KEY" THEN "envelope"
            ELSE IF cont.marker THEN "cipher" ELSE "plain",
            l, cont.shape, cont.alg)

\* pemDecodeFile(input, length, label, output, &n, header, consumed): the
\* status, the decoded length, the decoded bytes and the header's marker
pemDecodeFile(in, l) ==
    CASE in[l].st = "absent" ->
           [err |-> ERROR_END_OF_FILE, n |-> 0, data |-> NoContent,
            marker |-> FALSE]
      [] in[l].st = "bad" ->
           [err |-> ERROR_INVALID_ENCODING, n |-> 0, data |-> NoContent,
            marker |-> FALSE]
      [] OTHER ->
           [err |-> NO_ERROR, n |-> ContentLen(Payload(l, in[l])),
            data |-> Payload(l, in[l]), marker |-> in[l].marker]

Passwords == {"NULL", "correct", "wrong"}

\* pemDecryptMessage(header, password, ciphertext, n, plaintext, &n), in place
pemDecryptMessage(password, d, n) ==
    IF password = "correct" /\ d.form = "cipher" /\ n = ContentLen(d)
    THEN [err |-> NO_ERROR, data |-> [d EXCEPT !.form = "plain"],
          n |-> n - PadLen]
    ELSE [err |-> ERROR_DECRYPTION_FAILED,
          data |-> IF password = "NULL" THEN d
                   ELSE [d EXCEPT !.form = "garbage"],
          n |-> n]

\* pkcs8ParseEncryptedPrivateKeyInfo(buffer, n, &encryptedPrivateKeyInfo):
\* data and n are encryptedData and encryptedDataLen
pkcs8ParseEncryptedPrivateKeyInfo(d, n) ==
    IF d.form = "envelope" /\ d.shape # "badenv" /\ n = ContentLen(d)
    THEN [err |-> NO_ERROR, data |-> [d EXCEPT !.form = "cipher"],
          n |-> n - EnvelopeLen]
    ELSE [err |-> ERROR_INVALID_SYNTAX, data |-> NoContent, n |-> 0]

\* pkcs5Decrypt(&encryptionAlgo, password, data, n, data, &n), in place
pkcs5Decrypt(password, d, n) ==
    IF password = "correct" /\ d.form = "cipher" /\ n = ContentLen(d)
    THEN [err |-> NO_ERROR, data |-> [d EXCEPT !.form = "plain"],
          n |-> n - PadLen]
    ELSE [err |-> ERROR_DECRYPTION_FAILED,
          data |-> IF password = "NULL" THEN d
                   ELSE [d EXCEPT !.form = "garbage"],
          n |-> n]

\* The parsers that read the algorithm identifier from the structure
GenericParsers == {"pkcs8ParsePrivateKeyInfo", "x509ParseSubjectPublicKeyInfo"}

\* The ASN.1 structure a parser reads
ParserStructure(parser) ==
    CASE parser = "x509ParseRsaPublicKey" -> "RSAPublicKey"
      [] parser = "x509ParseSubjectPublicKeyInfo" -> "SubjectPublicKeyInfo"
      [] parser = "pkcs8ParseRsaPrivateKey" -> "RSAPrivateKey"
      [] parser = "pkcs8ParseDsaPrivateKey" -> "DSAPrivateKey"
      [] parser = "pkcs8ParseEcPrivateKey" -> "ECPrivateKey"
      [] parser = "pkcs8ParsePrivateKeyInfo" -> "PrivateKeyInfo"
      [] parser = "x509ParseEcParameters" -> "ECParameters"
      [] parser = "asn1ReadSequence" -> "DHParameter"
      [] OTHER -> "none"

\* The ASN.1 structure the container of a label carries (RFC 7468)
LabelStructure(l) ==
    CASE l = "RSA PUBLIC KEY" -> "RSAPublicKey"
      [] l = "PUBLIC KEY" -> "SubjectPublicKeyInfo"
      [] l = "RSA PRIVATE KEY" -> "RSAPrivateKey"
      [] l = "DSA PRIVATE KEY" -> "DSAPrivateKey"
      [] l = "EC PRIVATE KEY" -> "ECPrivateKey"
      [] l \in {"PRIVATE KEY", "ENCRYPTED PRIVATE KEY"} -> "PrivateKeyInfo"
      [] l = "EC PARAMETERS" -> "ECParameters"
      [] l = "DH PARAMETERS" -> "DHParameter"
      [] OTHER -> "Certificate"

\* Parsed key information.  oid: the algorithm identifier ("NONE" when
\* cleared or unknown), params: the family whose fields the parser filled,
\* src: the label of the container the fields come from
KeyInfo(oid, params, src) == [oid |-> oid, params |-> params, src |-> src]

NoKeyInfo == KeyInfo("NONE", "NONE", "")

\* A structure parser applied to n bytes of d
ParseStructureOf(parser, d, n) ==
    IF /\ d.form = "plain"
       /\ n = ContentLen(d)
       /\ LabelStructure(d.lab) = ParserStructure(parser)
       /\ \/ d.shape = "ok"
          \/ parser = "asn1ReadSequence" /\ d.shape # "noseq"
    THEN [err |-> NO_ERROR,
          info |-> IF parser \in GenericParsers
                   THEN KeyInfo(d.alg, d.alg, d.lab)
                   ELSE KeyInfo("NONE", LabelAlg(d.lab), d.lab)]
    ELSE [err |-> ERROR_INVALID_SYNTAX, info |-> NoKeyInfo]

\* A key object: two fields, 0 when empty (released or never filled)
Key(f1, f2) == [f1 |-> f1, f2 |-> f2]

EmptyKey == Key(0, 0)

\* The field value a container's key material has
KeyVal(l) == LabelId(l)

\* A key object left populated by an earlier use
PriorKey == Key(Len(LabelSeq) + 1, Len(LabelSeq) + 1)

\* A key import routine (x509Import..., pkcs8Import...) for the given family;
\* oom: the routine runs out of memory after writing the first field
ImportKeyOf(importer, family, info, key, oom) ==
    IF \/ info.params # family
       \/ importer # "x509ImportEcParameters" /\ info.oid # family
    THEN [err |-> ERROR_WRONG_IDENTIFIER, key |-> key, written |-> {}]
    ELSE IF oom
    THEN [err |-> ERROR_OUT_OF_MEMORY, key |-> [key EXCEPT !.f1 = KeyVal(info.src)],
          written |-> {"f1"}]
    ELSE [err |-> NO_ERROR, key |-> Key(KeyVal(info.src), KeyVal(info.src)),
          written |-> {"f1", "f2"}]

(***************************************************************************)
(* State of a call                                                         *)
(***************************************************************************)

\* One collaborator invocation: its name, the label or routine it is given,
\* the length and bytes it is given (or returns, for the decoder) and its
\* status
Event(ev, lab, n, data, err) ==
    [ev |-> ev, lab |-> lab, n |-> n, data |-> data, err |-> err]

\* A call before its first statement.  key0 is the caller's key object as
\* it is handed in; keyType "unset" is the caller's variable before the call
NewCall(name, password, key0, inputNull, lengthZero, outNull) ==
    [op |-> name, password |-> password, key0 |-> key0,
     inputNull |-> inputNull, lengthZero |-> lengthZero, outNull |-> outNull,
     pc |-> "start", idx |-> 1, matched |-> "", error |-> NO_ERROR, n |-> 0,
     buffer |-> NoContent, buf |-> 0, bufState |-> "none", marker |-> FALSE,
     data |-> NoContent, encryptedDataLen |-> 0, info |-> NoKeyInfo,
     key |-> key0,
     keyType |-> "unset", written |-> {}, allocs |-> 0, frees |-> 0,
     log |-> << >>]

IdleCall ==
    [NewCall("pemImportCertificate", "NULL", EmptyKey, FALSE, FALSE, FALSE)
        EXCEPT !.pc = "idle"]

TheBranch(c) == Op(calls[c].op).branches[calls[c].idx]

\* Where a function goes once its label branches are over: the key import
\* functions test error and release the key, the others return
\* Faulty variant of ExitStage: every function ends with the release of a key
ExitStageWithKey(name) == "cleanup"

ExitStage(name) == IF Op(name).key THEN "cleanup" ELSE "done"

\* Faulty variant of NextStage: a failed stage skips the release of the
\* buffer
NextStageLeak(err, next) == IF err = NO_ERROR THEN next ELSE "cleanup"

\* Faulty variant of NextStage: the next stage runs whatever the status
NextStageAlways(err, next) == next

\* if(!error) { next stage }: a stage runs only when all stages before it
\* succeeded; otherwise control falls through to cryptoFreeMem(buffer)
NextStage(err, next) == IF err = NO_ERROR THEN next ELSE "free"

\* Faulty variant of NoMatchError
NoMatchErrorSyntax == ERROR_INVALID_SYNTAX

\* The error a function with several candidate labels reports when no label
\* matched
NoMatchError == ERROR_END_OF_FILE

\* The error reported for an "ENCRYPTED PRIVATE KEY" container when
\* PEM_ENCRYPTED_KEY_SUPPORT is disabled
EncryptedKeyUnsupportedError == ERROR_DECRYPTION_FAILED

\* Faulty variant of IsEncrypted: a password makes the branch decrypt
IsEncryptedOrPassword(k) == k.marker \/ k.password # "NULL"

\* pemCompareString(&header.procType.type, "ENCRYPTED")
IsEncrypted(k) == k.marker

Upd(c, k) == calls' = [calls EXCEPT ![c] = k]

(***************************************************************************)
(* Steps of a call                                                         *)
(***************************************************************************)

\* Faulty variant of CheckParameters: the output pointer is not checked
CheckParametersInputOnly(c) ==
    /\ calls[c].pc = "start"
    /\ LET k == calls[c] IN
       IF k.inputNull /\ ~k.lengthZero
       THEN Upd(c, [k EXCEPT !.error = ERROR_INVALID_PARAMETER, !.pc = "done"])
       ELSE Upd(c, [k EXCEPT !.pc = "size",
                             !.keyType = IF k.op \in TypeQueries
                                         THEN X509_KEY_TYPE_UNKNOWN ELSE @])
    /\ UNCHANGED <<input, heap, encSupport>>

\* if(input == NULL && length != 0) return ERROR_INVALID_PARAMETER;
\* if(key == NULL) return ERROR_INVALID_PARAMETER;
CheckParameters(c) ==
    /\ calls[c].pc = "start"
    /\ LET k == calls[c] IN
       IF (k.inputNull /\ ~k.lengthZero) \/ k.outNull
       THEN Upd(c, [k EXCEPT !.error = ERROR_INVALID_PARAMETER, !.pc = "done"])
       ELSE Upd(c, [k EXCEPT !.pc = "size",
                             !.keyType = IF k.op \in TypeQueries
                                         THEN X509_KEY_TYPE_UNKNOWN ELSE @])
    /\ UNCHANGED <<input, heap, encSupport>>

\* Faulty variant of DecodeContainer: every decoder error is reported as
\* ERROR_END_OF_FILE
DecodeContainerNotFound(c) ==
    /\ calls[c].pc = "size"
    /\ TheBranch(c).kind = "raw"
    /\ LET k == calls[c]
           b == TheBranch(c)
           r == pemDecodeFile(input[c], b.label)
       IN  Upd(c, [k EXCEPT !.error = IF r.err = NO_ERROR THEN NO_ERROR
                                      ELSE NoMatchError,
                            !.n = r.n, !.pc = "done",
                            !.matched = IF r.err = NO_ERROR THEN b.label ELSE @,
                            !.log = Append(@, Event("decode", b.label, r.n,
                                                    r.data, r.err))])
    /\ UNCHANGED <<input, heap, encSupport>>

\* pemImportCertificate, pemImportCrl, pemImportCsr: the only decoder call
DecodeContainer(c) ==
    /\ calls[c].pc = "size"
    /\ TheBranch(c).kind = "raw"
    /\ LET k == calls[c]
           b == TheBranch(c)
           r == pemDecodeFile(input[c], b.label)
       IN  Upd(c, [k EXCEPT !.error = r.err, !.n = r.n, !.pc = "done",
                            !.matched = IF r.err = NO_ERROR THEN b.label ELSE @,
                            !.log = Append(@, Event("decode", b.label, r.n,
                                                    r.data, r.err))])
    /\ UNCHANGED <<input, heap, encSupport>>

\* Faulty variant of SizingDecode: only the absence of the label makes the
\* function go on to the next label, another decoder error is returned
SizingDecodeAbsenceOnly(c) ==
    /\ calls[c].pc = "size"
    /\ TheBranch(c).kind # "raw"
    /\ LET k == calls[c]
           o == Op(k.op)
           b == TheBranch(c)
           r == pemDecodeFile(input[c], b.label)
           l == [k EXCEPT !.log = Append(@, Event("size", b.label, r.n,
                                                  NoContent, r.err))]
       IN  IF r.err = NO_ERROR
           THEN IF b.kind = "typeonly"
                THEN Upd(c, [l EXCEPT !.matched = b.label, !.n = r.n,
                                      !.keyType = x509GetPublicKeyType(b.oid),
                                      !.pc = ExitStage(k.op)])
                ELSE IF b.kind = "wrapped" /\ ~encSupport
                THEN Upd(c, [l EXCEPT !.matched = b.label, !.n = r.n,
                                      !.error = EncryptedKeyUnsupportedError,
                                      !.pc = ExitStage(k.op)])
                ELSE Upd(c, [l EXCEPT !.matched = b.label, !.n = r.n,
                                      !.error = IF o.chain THEN @ ELSE r.err,
                                      !.pc = "alloc"])
           ELSE IF ~o.chain \/ r.err # ERROR_END_OF_FILE
                THEN Upd(c, [l EXCEPT !.error = r.err, !.pc = ExitStage(k.op)])
                ELSE IF k.idx < Len(o.branches)
                THEN Upd(c, [l EXCEPT !.idx = k.idx + 1])
                ELSE Upd(c, [l EXCEPT !.error = NoMatchError,
                                      !.pc = ExitStage(k.op)])
    /\ UNCHANGED <<input, heap, encSupport>>

\* pemDecodeFile(input, length, label, NULL, &n, NULL, NULL) for the current
\* candidate label
SizingDecode(c) ==
    /\ calls[c].pc = "size"
    /\ TheBranch(c).kind # "raw"
    /\ LET k == calls[c]
           o == Op(k.op)
           b == TheBranch(c)
           r == pemDecodeFile(input[c], b.label)
           l == [k EXCEPT !.log = Append(@, Event("size", b.label, r.n,
                                                  NoContent, r.err))]
       IN  IF r.err = NO_ERROR
           THEN IF b.kind = "typeonly"
                THEN Upd(c, [l EXCEPT !.matched = b.label, !.n = r.n,
                                      !.keyType = x509GetPublicKeyType(b.oid),
                                      !.pc = ExitStage(k.op)])
                ELSE IF b.kind = "wrapped" /\ ~encSupport
                THEN Upd(c, [l EXCEPT !.matched = b.label, !.n = r.n,
                                      !.error = EncryptedKeyUnsupportedError,
                                      !.pc = ExitStage(k.op)])
                ELSE Upd(c, [l EXCEPT !.matched = b.label, !.n = r.n,
                                      !.error = IF o.chain THEN @ ELSE r.err,
                                      !.pc = "alloc"])
           ELSE IF ~o.chain
                THEN Upd(c, [l EXCEPT !.error = r.err, !.pc = ExitStage(k.op)])
                ELSE IF k.idx < Len(o.branches)
                THEN Upd(c, [l EXCEPT !.idx = k.idx + 1])
                ELSE Upd(c, [l EXCEPT !.error = NoMatchError,
                                      !.pc = ExitStage(k.op)])
    /\ UNCHANGED <<input, heap, encSupport>>

\* Faulty variant of AllocBuffer: every call is given the same buffer
AllocBufferShared(c) ==
    /\ calls[c].pc = "alloc"
    /\ LET k == calls[c] IN
       /\ Upd(c, [k EXCEPT !.buf = 1, !.bufState = "live",
                           !.allocs = @ + 1, !.pc = "fill",
                           !.log = Append(@, Event("cryptoAllocMem", "",
                                       k.n, NoContent, NO_ERROR))])
       /\ heap' = [heap EXCEPT ![1] = c]
    /\ UNCHANGED <<input, encSupport>>

\* Faulty variant of AllocBuffer: the buffer is requested one byte larger
\* than the length the sizing decode reported
AllocBufferOneMore(c) ==
    /\ calls[c].pc = "alloc"
    /\ \E b \in BufIds \cup {0} :
         /\ b # 0 => heap[b] = 0 /\ \A j \in BufIds : j < b => heap[j] # 0
         /\ LET k == calls[c] IN
            IF b # 0
            THEN /\ Upd(c, [k EXCEPT !.buf = b, !.bufState = "live",
                                     !.allocs = @ + 1, !.pc = "fill",
                                     !.log = Append(@, Event("cryptoAllocMem", "",
                                                 k.n + 1, NoContent, NO_ERROR))])
                 /\ heap' = [heap EXCEPT ![b] = c]
            ELSE /\ Upd(c, [k EXCEPT !.error = ERROR_OUT_OF_MEMORY,
                                     !.pc = ExitStage(k.op),
                                     !.log = Append(@, Event("cryptoAllocMem", "",
                                                 k.n + 1, NoContent,
                                                 ERROR_OUT_OF_MEMORY))])
                 /\ UNCHANGED heap
    /\ UNCHANGED <<input, encSupport>>

\* buffer = cryptoAllocMem(n); a NULL result is ERROR_OUT_OF_MEMORY
AllocBuffer(c) ==
    /\ calls[c].pc = "alloc"
    /\ \E b \in BufIds \cup {0} :
         /\ b # 0 => heap[b] = 0 /\ \A j \in BufIds : j < b => heap[j] # 0
         /\ LET k == calls[c] IN
            IF b # 0
            THEN /\ Upd(c, [k EXCEPT !.buf = b, !.bufState = "live",
                                     !.allocs = @ + 1, !.pc = "fill",
                                     !.log = Append(@, Event("cryptoAllocMem", "",
                                                 k.n, NoContent, NO_ERROR))])
                 /\ heap' = [heap EXCEPT ![b] = c]
            ELSE /\ Upd(c, [k EXCEPT !.error = ERROR_OUT_OF_MEMORY,
                                     !.pc = ExitStage(k.op),
                                     !.log = Append(@, Event("cryptoAllocMem", "",
                                                 k.n, NoContent,
                                                 ERROR_OUT_OF_MEMORY))])
                 /\ UNCHANGED heap
    /\ UNCHANGED <<input, encSupport>>

\* Faulty variant of AfterFill: the "ENCRYPTED PRIVATE KEY" branch decrypts
\* the buffer without reading the envelope
AfterFillSkippingEnvelope(kind) ==
    CASE kind = "legacy" -> "header"
      [] kind = "wrapped" -> "pkcs5"
      [] OTHER -> "parse"

\* The stage that follows a successful filling decode in a branch
AfterFill(kind) ==
    CASE kind = "legacy" -> "header"
      [] kind = "wrapped" -> "envelope"
      [] OTHER -> "parse"

\* error = pemDecodeFile(input, length, label, buffer, &n, header, NULL); the
\* decoder may fail here although the sizing pass succeeded (fault)
FillingDecode(c) ==
    /\ calls[c].pc = "fill"
    /\ \E fault \in BOOLEAN :
         LET k == calls[c]
             b == TheBranch(c)
             r == pemDecodeFile(input[c], b.label)
             e == IF fault THEN ERROR_INVALID_ENCODING ELSE r.err
         IN  Upd(c, [k EXCEPT !.error = e,
                              !.buffer = IF e = NO_ERROR THEN r.data ELSE @,
                              !.n = IF e = NO_ERROR THEN r.n ELSE @,
                              !.marker = IF e = NO_ERROR /\ b.kind = "legacy"
                                         THEN r.marker ELSE @,
                              !.pc = NextStage(e, AfterFill(b.kind)),
                              !.log = Append(@, Event("fill", b.label,
                                          IF e = NO_ERROR THEN r.n ELSE k.n,
                                          IF e = NO_ERROR THEN r.data ELSE NoContent,
                                          e))])
    /\ UNCHANGED <<input, heap, encSupport>>

\* Faulty variant of LegacyDecrypt: a failed decryption is tried a second
\* time
LegacyDecryptRetrying(c) ==
    /\ calls[c].pc = "header"
    /\ LET k == calls[c]
           r == pemDecryptMessage(k.password, k.buffer, k.n)
           again == r.err # NO_ERROR /\ k.error = NO_ERROR
       IN  IF k.marker
           THEN Upd(c, [k EXCEPT !.error = r.err,
                                 !.buffer = IF again THEN @ ELSE r.data,
                                 !.n = r.n,
                                 !.pc = IF again THEN "header"
                                        ELSE IF r.err = NO_ERROR THEN "parse"
                                        ELSE "free",
                                 !.log = Append(@, Event("pemDecryptMessage",
                                             k.matched, k.n, k.buffer, r.err))])
           ELSE Upd(c, [k EXCEPT !.pc = "parse"])
    /\ UNCHANGED <<input, heap, encSupport>>

\* if(pemCompareString(&header.procType.type, "ENCRYPTED"))
\*    error = pemDecryptMessage(&header, password, buffer, n, buffer, &n);
LegacyDecrypt(c) ==
    /\ calls[c].pc = "header"
    /\ LET k == calls[c]
           r == pemDecryptMessage(k.password, k.buffer, k.n)
       IN  IF IsEncrypted(k)
           THEN Upd(c, [k EXCEPT !.error = r.err, !.buffer = r.data, !.n = r.n,
                                 !.pc = NextStage(r.err, "parse"),
                                 !.log = Append(@, Event("pemDecryptMessage",
                                             k.matched, k.n, k.buffer, r.err))])
           ELSE Upd(c, [k EXCEPT !.pc = NextStage(k.error, "parse")])
    /\ UNCHANGED <<input, heap, encSupport>>

\* error = pkcs8ParseEncryptedPrivateKeyInfo(buffer, n, &encryptedPrivateKeyInfo)
ParseEnvelope(c) ==
    /\ calls[c].pc = "envelope"
    /\ LET k == calls[c]
           r == pkcs8ParseEncryptedPrivateKeyInfo(k.buffer, k.n)
       IN  Upd(c, [k EXCEPT !.error = r.err, !.data = r.data,
                            !.encryptedDataLen = r.n,
                            !.pc = NextStage(r.err, "pkcs5"),
                            !.log = Append(@, Event(
                                        "pkcs8ParseEncryptedPrivateKeyInfo",
                                        k.matched, k.n, k.buffer, r.err))])
    /\ UNCHANGED <<input, heap, encSupport>>

\* Faulty variant of WrappedDecrypt: the status of pkcs5Decrypt is dropped
WrappedDecryptStatusDropped(c) ==
    /\ calls[c].pc = "pkcs5"
    /\ LET k == calls[c]
           m == k.encryptedDataLen
           r == pkcs5Decrypt(k.password, k.data, m)
       IN  Upd(c, [k EXCEPT !.data = r.data, !.n = r.n, !.pc = "parse",
                            !.log = Append(@, Event("pkcs5Decrypt", k.matched,
                                        m, k.data, r.err))])
    /\ UNCHANGED <<input, heap, encSupport>>

\* data = encryptedData; n = encryptedDataLen;
\* error = pkcs5Decrypt(&encryptionAlgo, password, data, n, data, &n)
WrappedDecrypt(c) ==
    /\ calls[c].pc = "pkcs5"
    /\ LET k == calls[c]
           m == k.encryptedDataLen
           r == pkcs5Decrypt(k.password, k.data, m)
       IN  Upd(c, [k EXCEPT !.error = r.err, !.data = r.data, !.n = r.n,
                            !.pc = NextStage(r.err, "parse"),
                            !.log = Append(@, Event("pkcs5Decrypt", k.matched,
                                        m, k.data, r.err))])
    /\ UNCHANGED <<input, heap, encSupport>>

\* Faulty variant of ParserInput: the parser always reads the
\* encrypted-data region
ParserInputData(k, kind) == k.data

\* The bytes a branch hands to its structure parser: the encrypted-data
\* region in the "ENCRYPTED PRIVATE KEY" branch, the buffer elsewhere
ParserInput(k, kind) == IF kind = "wrapped" THEN k.data ELSE k.buffer

\* The stage that follows a successful structure parse
AfterParse(name, kind) ==
    IF kind = "dh" THEN "readp"
    ELSE IF Op(name).key THEN "import" ELSE "classify"

\* Bytes of the tag and length octets in front of an ASN.1 value
TagHeaderLen == 2

\* Faulty variant of ParseStructure: the status of the parser is dropped
ParseStructureStatusDropped(c) ==
    /\ calls[c].pc = "parse"
    /\ LET k == calls[c]
           b == TheBranch(c)
           d == ParserInput(k, b.kind)
           r == ParseStructureOf(b.parser, d, k.n)
       IN  Upd(c, [k EXCEPT !.info = r.info,
                            !.pc = AfterParse(k.op, b.kind),
                            !.log = Append(@, Event("parse", b.parser, k.n, d,
                                        r.err))])
    /\ UNCHANGED <<input, heap, encSupport>>

\* error = <parser>(buffer, n, &info), for asn1ReadSequence: p = tag.value;
\* n = tag.length
ParseStructure(c) ==
    /\ calls[c].pc = "parse"
    /\ LET k == calls[c]
           b == TheBranch(c)
           d == ParserInput(k, b.kind)
           r == ParseStructureOf(b.parser, d, k.n)
       IN  Upd(c, [k EXCEPT !.error = r.err, !.info = r.info,
                            !.n = IF b.kind = "dh" /\ r.err = NO_ERROR
                                  THEN @ - TagHeaderLen ELSE @,
                            !.pc = NextStage(r.err, AfterParse(k.op, b.kind)),
                            !.log = Append(@, Event("parse", b.parser, k.n, d,
                                        r.err))])
    /\ UNCHANGED <<input, heap, encSupport>>

\* Faulty variant of ImportKey: a key object that already holds a key is
\* refused
ImportKeyIntoEmptyOnly(c) ==
    /\ calls[c].pc = "import"
    /\ \E oom \in BOOLEAN :
         LET k == calls[c]
             b == TheBranch(c)
             i == IF b.oid # "" THEN [k.info EXCEPT !.oid = b.oid] ELSE k.info
             r == IF k.key = EmptyKey
                  THEN ImportKeyOf(b.importer, Op(k.op).family, i, k.key, oom)
                  ELSE [err |-> ERROR_INVALID_PARAMETER, key |-> k.key,
                        written |-> {}]
         IN  Upd(c, [k EXCEPT !.error = r.err, !.info = i, !.key = r.key,
                              !.written = @ \cup r.written, !.pc = "free",
                              !.log = Append(@, Event("import", b.importer, 0,
                                          NoContent, r.err))])
    /\ UNCHANGED <<input, heap, encSupport>>

\* info.oid = <OID>; error = <importer>(&info, key); the importer may run
\* out of memory after it wrote a field of the key
ImportKey(c) ==
    /\ calls[c].pc = "import"
    /\ \E oom \in BOOLEAN :
         LET k == calls[c]
             b == TheBranch(c)
             i == IF b.oid # "" THEN [k.info EXCEPT !.oid = b.oid] ELSE k.info
             r == ImportKeyOf(b.importer, Op(k.op).family, i, k.key, oom)
         IN  Upd(c, [k EXCEPT !.error = r.err, !.info = i, !.key = r.key,
                              !.written = @ \cup r.written, !.pc = "free",
                              !.log = Append(@, Event("import", b.importer, 0,
                                          NoContent, r.err))])
    /\ UNCHANGED <<input, heap, encSupport>>

\* Faulty variant of ClassifyKeyType: an unknown key type is not reported
\* as an error
ClassifyKeyTypeUnreported(c) ==
    /\ calls[c].pc = "classify"
    /\ LET k == calls[c]
           t == x509GetPublicKeyType(k.info.oid)
       IN  Upd(c, [k EXCEPT !.keyType = t, !.pc = "free"])
    /\ UNCHANGED <<input, heap, encSupport>>

\* *keyType = x509GetPublicKeyType(oid, oidLen);
\* if(*keyType == X509_KEY_TYPE_UNKNOWN) error = ERROR_WRONG_IDENTIFIER;
ClassifyKeyType(c) ==
    /\ calls[c].pc = "classify"
    /\ LET k == calls[c]
           t == x509GetPublicKeyType(k.info.oid)
       IN  Upd(c, [k EXCEPT !.keyType = t,
                            !.error = IF t = X509_KEY_TYPE_UNKNOWN
                                      THEN ERROR_WRONG_IDENTIFIER ELSE @,
                            !.pc = "free"])
    /\ UNCHANGED <<input, heap, encSupport>>

\* asn1ReadMpi(p, n, &tag, &params->p); then p += tag.totalLength;
\* n -= tag.totalLength
ReadPrimeModulus(c) ==
    /\ calls[c].pc = "readp"
    /\ LET k == calls[c]
           ok == k.buffer.shape # "badp"
           e == IF ok THEN NO_ERROR ELSE ERROR_INVALID_SYNTAX
       IN  Upd(c, [k EXCEPT !.error = e,
                            !.key = IF ok THEN [@ EXCEPT !.f1 = KeyVal(k.matched)]
                                    ELSE @,
                            !.written = IF ok THEN @ \cup {"f1"} ELSE @,
                            !.n = IF ok THEN @ - 1 ELSE @,
                            !.pc = NextStage(e, "readg"),
                            !.log = Append(@, Event("asn1ReadMpi", "p", k.n,
                                        k.buffer, e))])
    /\ UNCHANGED <<input, heap, encSupport>>

\* asn1ReadMpi(p, n, &tag, &params->g)
ReadGenerator(c) ==
    /\ calls[c].pc = "readg"
    /\ LET k == calls[c]
           ok == k.buffer.shape # "badg"
           e == IF ok THEN NO_ERROR ELSE ERROR_INVALID_SYNTAX
       IN  Upd(c, [k EXCEPT !.error = e,
                            !.key = IF ok THEN [@ EXCEPT !.f2 = KeyVal(k.matched)]
                                    ELSE @,
                            !.written = IF ok THEN @ \cup {"f2"} ELSE @,
                            !.pc = "free",
                            !.log = Append(@, Event("asn1ReadMpi", "g", k.n,
                                        k.buffer, e))])
    /\ UNCHANGED <<input, heap, encSupport>>

\* Faulty variant of AfterBranch: a failed branch falls through to the next
\* candidate label
AfterBranchTryNext(k) ==
    IF k.error # NO_ERROR /\ k.idx < Len(Op(k.op).branches)
    THEN [pc |-> "size", idx |-> k.idx + 1]
    ELSE [pc |-> ExitStage(k.op), idx |-> k.idx]

\* Faulty variant of AfterBranch: after a first pass through the branch the
\* call allocates and decodes once more
AfterBranchOnceMore(k) ==
    IF k.frees = 0
    THEN [pc |-> "alloc", idx |-> k.idx]
    ELSE [pc |-> ExitStage(k.op), idx |-> k.idx]

\* Where control goes after the branch of the matched label: to the end of
\* the if / else if chain, whatever the branch's outcome
AfterBranch(k) == [pc |-> ExitStage(k.op), idx |-> k.idx]

\* cryptoFreeMem(buffer)
FreeBuffer(c) ==
    /\ calls[c].pc = "free"
    /\ LET k == calls[c] IN
       /\ Upd(c, [k EXCEPT !.bufState = "freed", !.frees = @ + 1,
                           !.pc = AfterBranch(k).pc, !.idx = AfterBranch(k).idx,
                           !.log = Append(@, Event("cryptoFreeMem", "", 0,
                                       NoContent, NO_ERROR))])
       /\ heap' = [heap EXCEPT ![k.buf] = 0]
    /\ UNCHANGED <<input, encSupport>>

\* Faulty variant of CleanUp: the key is not released on error
CleanUpNoRelease(c) ==
    /\ calls[c].pc = "cleanup"
    /\ Upd(c, [calls[c] EXCEPT !.pc = "done"])
    /\ UNCHANGED <<input, heap, encSupport>>

\* Faulty variant of CleanUp: the key is released whatever the status
CleanUpAlways(c) ==
    /\ calls[c].pc = "cleanup"
    /\ Upd(c, [calls[c] EXCEPT !.key = EmptyKey, !.pc = "done",
                               !.log = Append(@, Event("freeKey", "", 0,
                                           NoContent, NO_ERROR))])
    /\ UNCHANGED <<input, heap, encSupport>>

\* if(error) { <free the key>(key); } return error;
CleanUp(c) ==
    /\ calls[c].pc = "cleanup"
    /\ LET k == calls[c] IN
       IF k.error # NO_ERROR
       THEN Upd(c, [k EXCEPT !.key = EmptyKey, !.pc = "done",
                             !.log = Append(@, Event("freeKey", "", 0, NoContent,
                                         NO_ERROR))])
       ELSE Upd(c, [k EXCEPT !.pc = "done"])
    /\ UNCHANGED <<input, heap, encSupport>>

(***************************************************************************)
(* Inputs and initial states                                               *)
(***************************************************************************)

\* A well-formed container of the label's structure, without encryption
\* marker
DefaultContainer(l) ==
    Container("ok", FALSE, "ok",
              IF l \in {"PRIVATE KEY", "PUBLIC KEY", "ENCRYPTED PRIVATE KEY"}
              THEN "RSA" ELSE LabelAlg(l))

\* The containers considered under the label of a branch: for a branch that
\* never decodes the payload, only whether the container is there
ScopeVariants(b) ==
    IF b.kind = "typeonly"
    THEN {Absent, Bad, DefaultContainer(b.label)}
    ELSE Variants(b.label)

\* Number of containers of an input that may differ from the default one
MaxDefects == 1

\* The inputs over the labels of branches i.. with at most d containers
\* that are neither absent nor the default one
RECURSIVE InputsOver(_, _, _)
InputsOver(bs, i, d) ==
    IF i > Len(bs) THEN {EmptyInput}
    ELSE LET l == bs[i].label IN
         { [in EXCEPT ![l] = v] :
             in \in InputsOver(bs, i + 1, d),
             v \in {Absent, DefaultContainer(l)} } \cup
         IF d = 0 THEN {}
         ELSE { [in EXCEPT ![l] = v] :
                  in \in InputsOver(bs, i + 1, d - 1),
                  v \in ScopeVariants(bs[i]) \ {Absent, DefaultContainer(l)} }

\* A label the operation never asks for
ForeignLabel(name) ==
    IF "ENCRYPTED PRIVATE KEY" \in CandidateLabels(name)
    THEN "CERTIFICATE" ELSE "ENCRYPTED PRIVATE KEY"

\* The inputs of an operation: the combinations of containers under its
\* candidate labels, and an input whose only container has a foreign label
Inputs(name) ==
    InputsOver(Op(name).branches, 1, MaxDefects) \cup
    { [EmptyInput EXCEPT ![ForeignLabel(name)] =
          DefaultContainer(ForeignLabel(name))] }

\* The argument lists of a call: valid ones on every input, a null input of
\* length zero, and the invalid ones
ValidCalls(name) ==
    { <<NewCall(name, pw, k0, FALSE, FALSE, FALSE), in>> :
        pw \in (IF Op(name).password THEN Passwords ELSE {"NULL"}),
        k0 \in (IF Op(name).key THEN {EmptyKey, PriorKey} ELSE {EmptyKey}),
        in \in Inputs(name) }

NullCalls(name) ==
    { <<NewCall(name, "NULL", k0, TRUE, lz, outNull), EmptyInput>> :
        k0 \in (IF Op(name).key THEN {EmptyKey, PriorKey} ELSE {EmptyKey}),
        lz \in BOOLEAN, outNull \in BOOLEAN } \cup
    { <<NewCall(name, "NULL", EmptyKey, FALSE, FALSE, TRUE), EmptyInput>> }

AllCalls == UNION { ValidCalls(name) \cup NullCalls(name) : name \in OpNames }

\* One call
Init ==
    /\ \E a \in AllCalls :
         /\ calls = [c \in CallIds |-> IF c = 1 THEN a[1] ELSE IdleCall]
         /\ input = [c \in CallIds |-> IF c = 1 THEN a[2] ELSE EmptyInput]
    /\ heap = [b \in BufIds |-> 0]
    /\ encSupport \in BOOLEAN

Step(c) ==
    \/ CheckParameters(c)
    \/ DecodeContainer(c)
    \/ SizingDecode(c)
    \/ AllocBuffer(c)
    \/ FillingDecode(c)
    \/ LegacyDecrypt(c)
    \/ ParseEnvelope(c)
    \/ WrappedDecrypt(c)
    \/ ParseStructure(c)
    \/ ImportKey(c)
    \/ ClassifyKeyType(c)
    \/ ReadPrimeModulus(c)
    \/ ReadGenerator(c)
    \/ FreeBuffer(c)
    \/ CleanUp(c)

Next == \E c \in CallIds : Step(c)

Spec == Init /\ [][Next]_vars

\* One call that keeps executing: a function that has started runs its
\* next statement
FairSpec == Spec /\ WF_vars(Next)

(***************************************************************************)
(* Two calls of one operation on one input, run interleaved                *)
(***************************************************************************)

\* Inputs with at most one container
SingleInputs(name) ==
    { in \in Inputs(name) :
        Cardinality({ l \in Labels : in[l].st # "absent" }) <= 1 }

PasswordRank(pw) ==
    CASE pw = "NULL" -> 0 [] pw = "correct" -> 1 [] OTHER -> 2

\* The pairs of calls, up to the order of the two passwords
PasswordPairs(name) ==
    LET pws == IF Op(name).password THEN Passwords ELSE {"NULL"}
    IN  { pp \in pws \X pws : PasswordRank(pp[1]) <= PasswordRank(pp[2]) }

PairCalls ==
    UNION { { <<NewCall(name, pp[1], EmptyKey, FALSE, FALSE, FALSE),
                NewCall(name, pp[2], EmptyKey, FALSE, FALSE, FALSE), in>> :
                pp \in PasswordPairs(name), in \in SingleInputs(name) } :
            name \in OpNames }

InitPair ==
    /\ \E a \in PairCalls :
         /\ calls = [c \in CallIds |-> a[c]]
         /\ input = [c \in CallIds |-> a[3]]
    /\ heap = [b \in BufIds |-> 0]
    /\ encSupport = TRUE

SpecPair == InitPair /\ [][Next]_vars

(***************************************************************************)
(* One call, then the same call again on the same input and key object     *)
(***************************************************************************)

\* The caller repeats the finished call: same operation, same arguments,
\* same input, and the key object as the first call left it
Reimport ==
    /\ calls[1].pc = "done"
    /\ calls[2].pc = "idle"
    /\ calls' = [calls EXCEPT ![2] =
                    NewCall(calls[1].op, calls[1].password, calls[1].key,
                            calls[1].inputNull, calls[1].lengthZero,
                            calls[1].outNull)]
    /\ input' = [input EXCEPT ![2] = input[1]]
    /\ UNCHANGED <<heap, encSupport>>

NextTwice == Next \/ Reimport

SpecTwice == Init /\ [][NextTwice]_vars

(***************************************************************************)
(* Two calls on independent inputs and key objects, run interleaved        *)
(***************************************************************************)

\* The first call: any operation on an input with at most one container
FirstCalls ==
    UNION { { <<NewCall(name, pw, EmptyKey, FALSE, FALSE, FALSE), in>> :
                pw \in (IF Op(name).password THEN Passwords ELSE {"NULL"}),
                in \in SingleInputs(name) } :
            name \in OpNames }

\* The other call: an import that decrypts a legacy container into a key
\* object that held a key, and an import of a wrapped container
OtherCalls ==
    { <<NewCall("pemImportRsaPrivateKey", "correct", PriorKey, FALSE, FALSE, FALSE),
        [EmptyInput EXCEPT !["RSA PRIVATE KEY"] = Container("ok", TRUE, "ok", "RSA")]>>,
      <<NewCall("pemImportEddsaPrivateKey", "correct", EmptyKey, FALSE, FALSE, FALSE),
        [EmptyInput EXCEPT !["ENCRYPTED PRIVATE KEY"] =
            Container("ok", FALSE, "ok", "EDDSA")]>> }

InitConcurrent ==
    /\ \E a \in FirstCalls : \E b \in OtherCalls :
         /\ calls = [c \in CallIds |-> IF c = 1 THEN a[1] ELSE b[1]]
         /\ input = [c \in CallIds |-> IF c = 1 THEN a[2] ELSE b[2]]
    /\ heap = [b \in BufIds |-> 0]
    /\ encSupport = TRUE

SpecConcurrent == InitConcurrent /\ [][Next]_vars

(***************************************************************************)
(* Vocabulary of the properties                                            *)
(***************************************************************************)

Done(c) == calls[c].pc = "done"

\* The call passed the parameter checks
Validated(k) == ~((k.inputNull /\ ~k.lengthZero) \/ k.outNull)

\* The positions of the log where collaborator ev was invoked
EventsOf(k, ev) == { i \in 1..Len(k.log) : k.log[i].ev = ev }

\* The labels given to the sizing decode, in the order of the calls
TriedLabels(k) ==
    LET sz == SelectSeq(k.log, LAMBDA e : e.ev = "size")
    IN  [i \in 1..Len(sz) |-> sz[i].lab]

IsPrefix(s, t) == Len(s) <= Len(t) /\ \A i \in 1..Len(s) : s[i] = t[i]

\* The first label of order whose container the armor decoder decodes, ""
\* if there is none
FirstDecodable(in, order) ==
    IF \E i \in 1..Len(order) : in[order[i]].st = "ok"
    THEN order[CHOOSE i \in 1..Len(order) :
                 /\ in[order[i]].st = "ok"
                 /\ \A j \in 1..(i - 1) : in[order[j]].st # "ok"]
    ELSE ""

\* Labels tried in the given order, the match being the first label that
\* decodes, nothing tried after it, and the branch run being the match's
FollowsOrder(c, order) ==
    LET k == calls[c]
        t == TriedLabels(k)
    IN  /\ IsPrefix(t, order)
        /\ \A i \in 1..Len(k.log) : \A j \in 1..Len(k.log) :
             (i < j /\ k.log[i].ev = "size" /\ k.log[i].err = NO_ERROR)
                => k.log[j].ev # "size"
        /\ Cardinality({ i \in EventsOf(k, "size") : k.log[i].err = NO_ERROR }) <= 1
        /\ k.matched # "" => k.matched = FirstDecodable(input[c], order)
        /\ \A i \in EventsOf(k, "fill") : k.log[i].lab = k.matched
        /\ (Done(c) /\ Validated(k))
             => /\ k.matched = FirstDecodable(input[c], order)
                /\ k.error = NO_ERROR => k.key = Key(KeyVal(k.matched), KeyVal(k.matched))

(***************************************************************************)
(* C1                                                                      *)
(***************************************************************************)

\* C1: when a key import operation returns an error, no field written
\* during the call remains populated, and when the failure is past the
\* parameter checks the key object has been released (its release is the
\* last thing the call did and every field is empty).
C1_ErrorReleasesKey ==
    \A c \in CallIds :
        LET k == calls[c] IN
        (Done(c) /\ k.op \in KeyImports /\ k.error # NO_ERROR)
            => /\ \A f \in k.written : k.key[f] = 0
               /\ Validated(k)
                    => /\ k.key = EmptyKey
                       /\ Len(k.log) > 0
                       /\ k.log[Len(k.log)].ev = "freeKey"

\* A failing import that had already written a field of the key
C1_Witness ==
    \E c \in CallIds :
        /\ Done(c)
        /\ calls[c].error = ERROR_OUT_OF_MEMORY
        /\ calls[c].written # {}
        /\ calls[c].key = EmptyKey

(***************************************************************************)
(* C2                                                                      *)
(***************************************************************************)

\* C2: in every call at most one buffer is allocated, never more buffers
\* are released than were allocated, a live buffer belongs to the call in
\* the allocator's books, and when the call returns the number of buffers
\* released equals the number allocated.
C2_AllocationsBalanced ==
    \A c \in CallIds :
        LET k == calls[c] IN
        /\ k.frees <= k.allocs
        /\ k.allocs <= 1
        /\ k.bufState = "live" <=> (k.buf # 0 /\ heap[k.buf] = c /\ k.frees = 0)
        /\ Done(c) => k.allocs = k.frees /\ k.bufState # "live"

\* A failing call that allocated and released its buffer
C2_Witness ==
    \E c \in CallIds :
        /\ Done(c)
        /\ calls[c].error \notin {NO_ERROR, ERROR_OUT_OF_MEMORY}
        /\ calls[c].allocs = 1
        /\ calls[c].frees = 1

(***************************************************************************)
(* C3                                                                      *)
(***************************************************************************)

\* C3 as stated: every private-key import tries an algorithm-specific
\* label first, then "PRIVATE KEY", then "ENCRYPTED PRIVATE KEY".
C3_Original ==
    \A c \in CallIds :
        LET t == TriedLabels(calls[c]) IN
        calls[c].op \in PrivateKeyImports
            => /\ Len(t) <= 3
               /\ Len(t) >= 1 => t[1] \in LegacyPrivateLabels
               /\ Len(t) >= 2 => t[2] = "PRIVATE KEY"
               /\ Len(t) >= 3 => t[3] = "ENCRYPTED PRIVATE KEY"

\* The order of the labels of each private-key import
PrivateKeyOrder(name) ==
    CASE name = "pemImportRsaPrivateKey" ->
           <<"RSA PRIVATE KEY", "PRIVATE KEY", "ENCRYPTED PRIVATE KEY">>
      [] name = "pemImportDsaPrivateKey" ->
           <<"DSA PRIVATE KEY", "PRIVATE KEY", "ENCRYPTED PRIVATE KEY">>
      [] name = "pemImportEcPrivateKey" ->
           <<"EC PRIVATE KEY", "PRIVATE KEY", "ENCRYPTED PRIVATE KEY">>
      [] name = "pemImportEddsaPrivateKey" ->
           <<"PRIVATE KEY", "ENCRYPTED PRIVATE KEY">>

\* C3 (amended): the RSA, DSA and EC private-key imports try
\* "<ALGO> PRIVATE KEY", "PRIVATE KEY", "ENCRYPTED PRIVATE KEY" in that
\* order and the EdDSA private-key import tries "PRIVATE KEY" then
\* "ENCRYPTED PRIVATE KEY"; the branch taken is that of the first label
\* whose armor decoding succeeds, whatever later labels the input holds,
\* and at most one candidate is matched per call.
C3_PrivateKeyLabelOrder ==
    \A c \in CallIds :
        calls[c].op \in PrivateKeyImports
            => FollowsOrder(c, PrivateKeyOrder(calls[c].op))

\* A successful private-key import from the first label of an input that
\* also holds a container under a later label
C3_Witness ==
    \E c \in CallIds :
        /\ Done(c)
        /\ calls[c].op \in PrivateKeyImports
        /\ calls[c].error = NO_ERROR
        /\ calls[c].matched = PrivateKeyOrder(calls[c].op)[1]
        /\ input[c][PrivateKeyOrder(calls[c].op)[2]].st = "ok"

(***************************************************************************)
(* C4                                                                      *)
(***************************************************************************)

\* C4 as stated: every public-key import tries an algorithm-specific
\* "<ALGO> PUBLIC KEY" label first and "PUBLIC KEY" second.
C4_Original ==
    \A c \in CallIds :
        LET t == TriedLabels(calls[c]) IN
        calls[c].op \in PublicKeyImports
            => /\ Len(t) <= 2
               /\ Len(t) >= 1 => t[1] # "PUBLIC KEY"
               /\ Len(t) >= 2 => t[2] = "PUBLIC KEY"

\* The order of the labels of each public-key import
PublicKeyOrder(name) ==
    IF name = "pemImportRsaPublicKey"
    THEN <<"RSA PUBLIC KEY", "PUBLIC KEY">>
    ELSE <<"PUBLIC KEY">>

\* C4 (amended): the RSA public-key import tries "RSA PUBLIC KEY" and then
\* "PUBLIC KEY", and the first label whose armor decoding succeeds is the
\* match; the DSA, EC and EdDSA public-key imports try "PUBLIC KEY" only.
C4_PublicKeyLabelOrder ==
    \A c \in CallIds :
        calls[c].op \in PublicKeyImports
            => FollowsOrder(c, PublicKeyOrder(calls[c].op))

\* A successful RSA public-key import from "RSA PUBLIC KEY" on an input
\* that also holds a "PUBLIC KEY" container
C4_Witness ==
    \E c \in CallIds :
        /\ Done(c)
        /\ calls[c].op = "pemImportRsaPublicKey"
        /\ calls[c].error = NO_ERROR
        /\ calls[c].matched = "RSA PUBLIC KEY"
        /\ input[c]["PUBLIC KEY"].st = "ok"

(***************************************************************************)
(* C5                                                                      *)
(***************************************************************************)

\* The stages of a matched branch
BranchStages ==
    { "cryptoAllocMem", "fill", "pemDecryptMessage",
      "pkcs8ParseEncryptedPrivateKeyInfo", "pkcs5Decrypt", "parse", "import",
      "asn1ReadMpi" }

\* C5: once a label's sizing decode succeeded no further sizing decode is
\* made in the call, whatever the later stages of the branch do, and when
\* a later stage of the branch fails the call returns that stage's error.
C5_NoFallbackAfterMatch ==
    \A c \in CallIds :
        LET k == calls[c] IN
        /\ \A i \in 1..Len(k.log) : \A j \in 1..Len(k.log) :
             (i < j /\ k.log[i].ev = "size" /\ k.log[i].err = NO_ERROR)
                => k.log[j].ev # "size"
        /\ Done(c) =>
             \A i \in 1..Len(k.log) :
                 (k.log[i].ev \in BranchStages /\ k.log[i].err # NO_ERROR)
                    => k.error = k.log[i].err

\* A call that matched its first label, failed in a later stage and returned
\* that error although a decodable container stood under its second label
C5_Witness ==
    \E c \in CallIds :
        LET k == calls[c] IN
        /\ Done(c)
        /\ Len(Op(k.op).branches) >= 2
        /\ k.matched = Op(k.op).branches[1].label
        /\ input[c][Op(k.op).branches[2].label] = DefaultContainer(Op(k.op).branches[2].label)
        /\ k.error \in {ERROR_INVALID_SYNTAX, ERROR_DECRYPTION_FAILED}
        /\ Cardinality(EventsOf(k, "size")) = 1

(***************************************************************************)
(* C6                                                                      *)
(***************************************************************************)

ImportOperations ==
    KeyImports \cup {"pemImportCertificate", "pemImportCrl", "pemImportCsr"}

\* C6: an import operation on an input that holds none of the operation's
\* candidate labels returns ERROR_END_OF_FILE, for every password value.
C6_NoLabelIsEndOfFile ==
    \A c \in CallIds :
        LET k == calls[c] IN
        (/\ Done(c)
         /\ Validated(k)
         /\ k.op \in ImportOperations
         /\ \A l \in CandidateLabels(k.op) : input[c][l].st = "absent")
            => /\ k.error = ERROR_END_OF_FILE
               /\ k.matched = ""

\* A private-key import given a password and an input whose only container
\* has a label the operation does not know
C6_Witness ==
    \E c \in CallIds :
        LET k == calls[c] IN
        /\ Done(c)
        /\ k.op \in PrivateKeyImports
        /\ k.password # "NULL"
        /\ \E l \in Labels : input[c][l].st = "ok"
        /\ \A l \in CandidateLabels(k.op) : input[c][l].st = "absent"
        /\ k.error = ERROR_END_OF_FILE

(***************************************************************************)
(* C7                                                                      *)
(***************************************************************************)

\* C7: no call invokes both pemDecryptMessage and pkcs5Decrypt;
\* pemDecryptMessage is invoked only when the matched label is the
\* algorithm-specific legacy label, pkcs5Decrypt only when the matched
\* label is "ENCRYPTED PRIVATE KEY".
C7_OneDecryptionMechanism ==
    \A c \in CallIds :
        LET k == calls[c] IN
        /\ EventsOf(k, "pemDecryptMessage") = {} \/ EventsOf(k, "pkcs5Decrypt") = {}
        /\ EventsOf(k, "pemDecryptMessage") # {}
             => /\ k.matched \in LegacyPrivateLabels
                /\ k.op \in PrivateKeyImports
                /\ k.matched = PrivateKeyOrder(k.op)[1]
        /\ EventsOf(k, "pkcs5Decrypt") # {} => k.matched = "ENCRYPTED PRIVATE KEY"

\* The legacy decryption ran on an input that also holds an
\* "ENCRYPTED PRIVATE KEY" container
C7_Witness ==
    \E c \in CallIds :
        /\ Done(c)
        /\ EventsOf(calls[c], "pemDecryptMessage") # {}
        /\ input[c]["ENCRYPTED PRIVATE KEY"].st = "ok"
        /\ calls[c].error = NO_ERROR

(***************************************************************************)
(* C8                                                                      *)
(***************************************************************************)

UnencryptedLabels ==
    {"PRIVATE KEY", "PUBLIC KEY", "RSA PUBLIC KEY", "EC PARAMETERS",
     "DH PARAMETERS"}

\* C8: when the matched label implies no encryption, no decryption
\* primitive is invoked and the structure parser is given exactly the bytes
\* and the length the filling decode produced.
C8_PayloadPassesThrough ==
    \A c \in CallIds :
        LET k == calls[c] IN
        k.matched \in UnencryptedLabels
            => /\ EventsOf(k, "pemDecryptMessage") = {}
               /\ EventsOf(k, "pkcs5Decrypt") = {}
               /\ \A i \in EventsOf(k, "parse") :
                    \E j \in EventsOf(k, "fill") :
                        /\ j < i
                        /\ k.log[j].err = NO_ERROR
                        /\ k.log[i].data = k.log[j].data
                        /\ k.log[i].n = k.log[j].n

\* A "PRIVATE KEY" container with an encryption marker in its header,
\* imported with a password: the parser still ran on the decoded bytes
C8_Witness ==
    \E c \in CallIds :
        LET k == calls[c] IN
        /\ Done(c)
        /\ k.matched = "PRIVATE KEY"
        /\ k.password = "correct"
        /\ input[c]["PRIVATE KEY"].marker
        /\ EventsOf(k, "parse") # {}

(***************************************************************************)
(* C9                                                                      *)
(***************************************************************************)

\* C9: in a private-key import whose matched label is the legacy label and
\* whose header carries the encryption marker, a call without password
\* fails with ERROR_DECRYPTION_FAILED where the decryption is invoked: no
\* structure parser and no key import is invoked, and the call returns that
\* error.
C9_NoPasswordFailsAtDecryption ==
    \A c \in CallIds :
        LET k == calls[c] IN
        (/\ k.op \in PrivateKeyImports
         /\ k.matched \in LegacyPrivateLabels
         /\ input[c][k.matched].marker
         /\ k.password = "NULL")
            => /\ EventsOf(k, "parse") = {}
               /\ EventsOf(k, "import") = {}
               /\ \A i \in EventsOf(k, "pemDecryptMessage") :
                      k.log[i].err = ERROR_DECRYPTION_FAILED
               /\ (Done(c) /\ \E i \in EventsOf(k, "fill") : k.log[i].err = NO_ERROR)
                    => /\ EventsOf(k, "pemDecryptMessage") # {}
                       /\ k.error = ERROR_DECRYPTION_FAILED

\* An encrypted legacy container imported without password
C9_Witness ==
    \E c \in CallIds :
        LET k == calls[c] IN
        /\ Done(c)
        /\ k.op \in PrivateKeyImports
        /\ k.matched \in LegacyPrivateLabels
        /\ input[c][k.matched].marker
        /\ input[c][k.matched].shape = "ok"
        /\ k.password = "NULL"
        /\ EventsOf(k, "pemDecryptMessage") # {}
        /\ k.error = ERROR_DECRYPTION_FAILED

(***************************************************************************)
(* C10                                                                     *)
(***************************************************************************)

\* The faults the environment injected into a call: a failed allocation, a
\* failed filling decode, an importer out of memory
InjectedFaults(k) ==
    { k.log[i].ev : i \in { j \in 1..Len(k.log) :
        \/ k.log[j].ev = "cryptoAllocMem" /\ k.log[j].err # NO_ERROR
        \/ k.log[j].ev = "fill" /\ k.log[j].err # NO_ERROR
        \/ k.log[j].ev = "import" /\ k.log[j].err = ERROR_OUT_OF_MEMORY } }

\* The matched container needs no password
NeedsNoPassword(c) ==
    \/ calls[c].matched = "PRIVATE KEY"
    \/ calls[c].matched \in LegacyPrivateLabels /\ ~input[c][calls[c].matched].marker

\* C10: two private-key imports of the same input whose matched container
\* needs no password, under the same injected faults, return the same
\* error code and the same key whatever their passwords are.
C10_PasswordIgnored ==
    \A c \in CallIds : \A d \in CallIds :
        (/\ Done(c) /\ Done(d)
         /\ calls[c].op \in PrivateKeyImports
         /\ calls[c].op = calls[d].op
         /\ input[c] = input[d]
         /\ calls[c].key0 = calls[d].key0
         /\ NeedsNoPassword(c)
         /\ InjectedFaults(calls[c]) = InjectedFaults(calls[d]))
            => /\ calls[c].error = calls[d].error
               /\ calls[c].key = calls[d].key
               /\ calls[c].matched = calls[d].matched

\* The same unencrypted legacy container imported without password and with
\* passwords, both imports succeeding
C10_Witness ==
    /\ Done(1) /\ Done(2)
    /\ calls[1].op \in PrivateKeyImports
    /\ calls[1].op = calls[2].op
    /\ calls[1].matched \in LegacyPrivateLabels
    /\ NeedsNoPassword(1)
    /\ calls[1].password = "NULL"
    /\ calls[2].password = "wrong"
    /\ calls[1].error = NO_ERROR
    /\ calls[2].error = NO_ERROR
    /\ calls[1].key = calls[2].key
    /\ calls[1].key # EmptyKey

(***************************************************************************)
(* C11                                                                     *)
(***************************************************************************)

\* The container under "ENCRYPTED PRIVATE KEY" is one the armor decoder
\* decodes and whose envelope is well formed
WellFormedEnvelope(in) ==
    /\ in["ENCRYPTED PRIVATE KEY"].st = "ok"
    /\ in["ENCRYPTED PRIVATE KEY"].shape # "badenv"

\* C11: a private-key import that matched a well-formed "ENCRYPTED PRIVATE
\* KEY" container and is given an incorrect password, the allocator and the
\* decoder working, returns ERROR_DECRYPTION_FAILED and no other error, runs
\* no parser of the key and no importer, and leaves the key object released.
C11_WrongPasswordIsDecryptionFailure ==
    \A c \in CallIds :
        LET k == calls[c] IN
        (/\ Done(c)
         /\ k.op \in PrivateKeyImports
         /\ k.matched = "ENCRYPTED PRIVATE KEY"
         /\ WellFormedEnvelope(input[c])
         /\ k.password = "wrong"
         /\ InjectedFaults(k) = {})
            => /\ k.error = ERROR_DECRYPTION_FAILED
               /\ k.key = EmptyKey
               /\ EventsOf(k, "parse") = {}
               /\ EventsOf(k, "import") = {}

\* A wrapped container decrypted with a wrong password, the key object
\* holding an earlier key when the call began
C11_Witness ==
    \E c \in CallIds :
        LET k == calls[c] IN
        /\ Done(c)
        /\ k.op \in PrivateKeyImports
        /\ k.matched = "ENCRYPTED PRIVATE KEY"
        /\ k.password = "wrong"
        /\ k.key0 = PriorKey
        /\ \E i \in EventsOf(k, "pkcs5Decrypt") :
               k.log[i].err = ERROR_DECRYPTION_FAILED
        /\ k.error = ERROR_DECRYPTION_FAILED
        /\ k.key = EmptyKey

(***************************************************************************)
(* C12                                                                     *)
(***************************************************************************)

\* The collaborators of the "ENCRYPTED PRIVATE KEY" branch, in the order of
\* the code
WrappedStages ==
    << "fill", "pkcs8ParseEncryptedPrivateKeyInfo", "pkcs5Decrypt", "parse",
       "import" >>

\* The stages a call ran after its buffer was allocated, in order
StageTrace(k) ==
    LET st == SelectSeq(k.log, LAMBDA e :
                  e.ev \in (BranchStages \cup {"pemDecryptMessage"})
                           \ {"cryptoAllocMem"})
    IN  [i \in 1..Len(st) |-> st[i]]

\* C12: in the "ENCRYPTED PRIVATE KEY" branch of a private-key import the
\* stages run in the order filling decode, envelope parse, pkcs5Decrypt,
\* pkcs8ParsePrivateKeyInfo, key import, each only after the one before it
\* succeeded; a failed envelope parse is followed by no decryption and its
\* error, which is not ERROR_DECRYPTION_FAILED, is the call's result; a
\* successful envelope parse is always followed by pkcs5Decrypt, whatever
\* the header of the container says.
C12_WrappedBranchOrder ==
    \A c \in CallIds :
        LET k == calls[c]
            t == StageTrace(k)
        IN
        (k.op \in PrivateKeyImports /\ k.matched = "ENCRYPTED PRIVATE KEY")
            => /\ Len(t) <= Len(WrappedStages)
               /\ \A i \in 1..Len(t) :
                    /\ t[i].ev = WrappedStages[i]
                    /\ i < Len(t) => t[i].err = NO_ERROR
                    /\ t[i].ev = "parse" => t[i].lab = "pkcs8ParsePrivateKeyInfo"
               /\ \A i \in 1..Len(t) :
                    (t[i].ev = "pkcs8ParseEncryptedPrivateKeyInfo"
                       /\ t[i].err # NO_ERROR)
                        => /\ EventsOf(k, "pkcs5Decrypt") = {}
                           /\ t[i].err # ERROR_DECRYPTION_FAILED
                           /\ Done(c) => k.error = t[i].err
               /\ \A i \in 1..Len(t) :
                    (t[i].ev = "pkcs8ParseEncryptedPrivateKeyInfo"
                       /\ t[i].err = NO_ERROR /\ k.pc # "pkcs5")
                        => EventsOf(k, "pkcs5Decrypt") # {}

\* A wrapped container whose header carries the encryption marker, imported
\* through all five stages
C12_Witness ==
    \E c \in CallIds :
        LET k == calls[c] IN
        /\ Done(c)
        /\ k.op \in PrivateKeyImports
        /\ k.matched = "ENCRYPTED PRIVATE KEY"
        /\ input[c]["ENCRYPTED PRIVATE KEY"].marker
        /\ Len(StageTrace(k)) = Len(WrappedStages)
        /\ k.error = NO_ERROR

(***************************************************************************)
(* C13                                                                     *)
(***************************************************************************)

\* The operations whose matched branch runs a structure parser
ParsingBranch(k) ==
    /\ k.matched # ""
    /\ Op(k.op).branches[k.idx].kind \notin {"typeonly", "raw"}

\* C13: in a matched branch, after the first collaborator stage that fails
\* no other stage of the branch is invoked and the call returns the error of
\* that stage; a matched container whose structure is truncated never
\* yields success, and when the parser is reached it is the parser's
\* ERROR_INVALID_SYNTAX that the call returns.
C13_FirstFailureDecides ==
    \A c \in CallIds :
        LET k == calls[c] IN
        /\ \A i \in 1..Len(k.log) :
             (k.log[i].ev \in BranchStages /\ k.log[i].err # NO_ERROR)
                => /\ \A j \in (i + 1)..Len(k.log) :
                        k.log[j].ev \notin BranchStages
                   /\ Done(c) => k.error = k.log[i].err
        /\ (/\ Done(c)
            /\ ParsingBranch(k)
            /\ input[c][k.matched].shape = "trunc")
              => /\ k.error # NO_ERROR
                 /\ Op(k.op).key => k.key = EmptyKey
                 /\ EventsOf(k, "import") = {}
                 /\ \A i \in EventsOf(k, "parse") :
                        /\ k.log[i].err = ERROR_INVALID_SYNTAX
                        /\ k.error = ERROR_INVALID_SYNTAX

\* An import of a truncated container that reached the parser
C13_Witness ==
    \E c \in CallIds :
        LET k == calls[c] IN
        /\ Done(c)
        /\ k.op \in KeyImports
        /\ k.matched # ""
        /\ input[c][k.matched].shape = "trunc"
        /\ EventsOf(k, "parse") # {}
        /\ k.error = ERROR_INVALID_SYNTAX
        /\ k.key0 = PriorKey

(***************************************************************************)
(* C14                                                                     *)
(***************************************************************************)

\* The key family each key import is called for
RequestedFamily(name) ==
    CASE name \in {"pemImportRsaPublicKey", "pemImportRsaPrivateKey"} -> "RSA"
      [] name \in {"pemImportDsaPublicKey", "pemImportDsaPrivateKey"} -> "DSA"
      [] name \in {"pemImportEcParameters", "pemImportEcPublicKey",
                   "pemImportEcPrivateKey"} -> "EC"
      [] name \in {"pemImportEddsaPublicKey", "pemImportEddsaPrivateKey"} ->
           "EDDSA"
      [] OTHER -> "NONE"

GenericLabels == {"PRIVATE KEY", "ENCRYPTED PRIVATE KEY", "PUBLIC KEY"}

\* C14: a key import that succeeds has filled the key from a structure of
\* the family the operation is called for; an import that matched a generic
\* "PRIVATE KEY", "ENCRYPTED PRIVATE KEY" or "PUBLIC KEY" container whose
\* algorithm identifier names another family does not succeed and leaves no
\* key.
C14_OnlyRequestedKind ==
    \A c \in CallIds :
        LET k == calls[c] IN
        (Done(c) /\ k.op \in KeyImports \ {"pemImportDhParameters"})
            => /\ (k.error = NO_ERROR)
                    => /\ k.info.params = RequestedFamily(k.op)
                       /\ k.matched \in GenericLabels
                            => input[c][k.matched].alg = RequestedFamily(k.op)
               /\ (/\ k.matched \in GenericLabels
                   /\ input[c][k.matched].alg # RequestedFamily(k.op))
                    => /\ k.error # NO_ERROR
                       /\ k.key = EmptyKey

\* A well-formed generic container of another family, parsed and refused by
\* the importer
C14_Witness ==
    \E c \in CallIds :
        LET k == calls[c] IN
        /\ Done(c)
        /\ k.op \in KeyImports
        /\ k.matched \in GenericLabels
        /\ input[c][k.matched].shape = "ok"
        /\ input[c][k.matched].alg \in Algs \ {"NONE", RequestedFamily(k.op)}
        /\ \E i \in EventsOf(k, "parse") : k.log[i].err = NO_ERROR
        /\ EventsOf(k, "import") # {}
        /\ k.error # NO_ERROR
        /\ k.key = EmptyKey

(***************************************************************************)
(* C15                                                                     *)
(***************************************************************************)

\* C15: an operation that matched a well-formed "PRIVATE KEY" or "PUBLIC
\* KEY" container whose algorithm identifier is of no known family, the
\* allocator and the decoder working, returns ERROR_WRONG_IDENTIFIER, which
\* differs from the parser's ERROR_INVALID_SYNTAX; the parser itself
\* succeeded, and a type query reports X509_KEY_TYPE_UNKNOWN.
C15_UnknownIdentifier ==
    \A c \in CallIds :
        LET k == calls[c] IN
        (/\ Done(c)
         /\ ParsingBranch(k)
         /\ k.matched \in {"PRIVATE KEY", "PUBLIC KEY"}
         /\ input[c][k.matched].shape = "ok"
         /\ input[c][k.matched].alg = "NONE"
         /\ InjectedFaults(k) = {})
            => /\ k.error = ERROR_WRONG_IDENTIFIER
               /\ k.error # ERROR_INVALID_SYNTAX
               /\ \A i \in EventsOf(k, "parse") : k.log[i].err = NO_ERROR
               /\ EventsOf(k, "parse") # {}
               /\ k.op \in TypeQueries => k.keyType = X509_KEY_TYPE_UNKNOWN
               /\ Op(k.op).key => k.key = EmptyKey

\* A type query on a well-formed container of unknown algorithm
C15_Witness ==
    \E c \in CallIds :
        LET k == calls[c] IN
        /\ Done(c)
        /\ k.op \in TypeQueries
        /\ k.matched \in {"PRIVATE KEY", "PUBLIC KEY"}
        /\ input[c][k.matched].shape = "ok"
        /\ input[c][k.matched].alg = "NONE"
        /\ \E i \in EventsOf(k, "parse") : k.log[i].err = NO_ERROR
        /\ k.error = ERROR_WRONG_IDENTIFIER

(***************************************************************************)
(* C16                                                                     *)
(***************************************************************************)

\* C16: with encrypted-key support disabled, a private-key import whose
\* matched label is "ENCRYPTED PRIVATE KEY" fails with an error that is not
\* ERROR_DECRYPTION_FAILED, without allocating a buffer and without a
\* filling decode, an envelope parse or a decryption.
C16_UnsupportedIsDistinctError ==
    \A c \in CallIds :
        LET k == calls[c] IN
        (/\ ~encSupport
         /\ Done(c)
         /\ k.op \in PrivateKeyImports
         /\ k.matched = "ENCRYPTED PRIVATE KEY")
            => /\ k.error # NO_ERROR
               /\ k.error # ERROR_DECRYPTION_FAILED
               /\ k.allocs = 0
               /\ \A i \in 1..Len(k.log) : k.log[i].ev \notin BranchStages

\* An "ENCRYPTED PRIVATE KEY" container met with encrypted-key support
\* disabled: nothing is allocated or decoded and the call reports
\* ERROR_DECRYPTION_FAILED
C16_Witness ==
    \E c \in CallIds :
        LET k == calls[c] IN
        /\ ~encSupport
        /\ Done(c)
        /\ k.op \in PrivateKeyImports
        /\ k.matched = "ENCRYPTED PRIVATE KEY"
        /\ k.allocs = 0
        /\ \A i \in 1..Len(k.log) : k.log[i].ev \notin BranchStages
        /\ k.error = ERROR_DECRYPTION_FAILED
        /\ k.key = EmptyKey

(***************************************************************************)
(* C17                                                                     *)
(***************************************************************************)

\* The positions of the filling decodes that failed although the sizing
\* decode of the same label had succeeded
FailedFills(k) ==
    { i \in EventsOf(k, "fill") :
        /\ k.log[i].err # NO_ERROR
        /\ \E j \in EventsOf(k, "size") :
             j < i /\ k.log[j].lab = k.log[i].lab /\ k.log[j].err = NO_ERROR }

\* C17: when the filling decode fails after the sizing decode of the same
\* label succeeded, the call does not return the decoder's error as its
\* ordinary result.
C17_FillFailureIsInternalFault ==
    \A c \in CallIds :
        LET k == calls[c] IN
        Done(c) => \A i \in FailedFills(k) : k.error # k.log[i].err

\* A filling decode that fails after a successful sizing decode: the call
\* returns the decoder's error like any other failure
C17_Witness ==
    \E c \in CallIds :
        LET k == calls[c] IN
        /\ Done(c)
        /\ FailedFills(k) # {}
        /\ \A i \in FailedFills(k) : k.error = k.log[i].err
        /\ k.allocs = 1 /\ k.frees = 1

(***************************************************************************)
(* C18                                                                     *)
(***************************************************************************)

\* C18: after a failing key import the key object is as if the call had
\* never been made: when the call fails before any stage wrote to the key,
\* the key object still holds what it held before the call.
C18_FailureLeavesKeyUntouched ==
    \A c \in CallIds :
        LET k == calls[c] IN
        (/\ Done(c)
         /\ k.op \in KeyImports
         /\ k.error # NO_ERROR
         /\ k.written = {})
            => k.key = k.key0

\* A key object that held a key is handed to an import that finds no
\* candidate label: the call wrote nothing, yet the earlier key is gone
C18_Witness ==
    \E c \in CallIds :
        LET k == calls[c] IN
        /\ Done(c)
        /\ k.op \in KeyImports
        /\ k.key0 = PriorKey
        /\ k.error = ERROR_END_OF_FILE
        /\ k.written = {}
        /\ EventsOf(k, "freeKey") # {}
        /\ k.key = EmptyKey

(***************************************************************************)
(* C19                                                                     *)
(***************************************************************************)

\* C19: an operation called with a null input and a non-zero length, or
\* with a null output pointer, returns ERROR_INVALID_PARAMETER at once: no
\* collaborator is invoked, nothing is allocated, the key is not released
\* and no output is written.  A null input of length zero with a valid
\* output pointer is accepted and reaches the decoder.
C19_InvalidParameters ==
    \A c \in CallIds :
        LET k == calls[c] IN
        /\ (~Validated(k) /\ k.pc \notin {"start", "idle"})
             => /\ Done(c)
                /\ k.error = ERROR_INVALID_PARAMETER
                /\ k.log = << >>
                /\ k.allocs = 0
                /\ \A b \in BufIds : heap[b] # c
                /\ k.key = k.key0
                /\ k.written = {}
                /\ k.keyType = "unset"
                /\ k.matched = ""
        /\ (k.inputNull /\ k.lengthZero /\ ~k.outNull /\ Done(c))
             => /\ k.error # ERROR_INVALID_PARAMETER
                /\ EventsOf(k, "size") \cup EventsOf(k, "decode") # {}

\* A key import refused for its null key pointer while the other arguments
\* are valid
C19_Witness ==
    \E c \in CallIds :
        LET k == calls[c] IN
        /\ Done(c)
        /\ k.outNull /\ ~k.inputNull
        /\ k.error = ERROR_INVALID_PARAMETER
        /\ k.log = << >>

(***************************************************************************)
(* C20                                                                     *)
(***************************************************************************)

\* The positions of the log where a decryption primitive was invoked
Decryptions(k) == EventsOf(k, "pemDecryptMessage") \cup EventsOf(k, "pkcs5Decrypt")

\* C20: in a private-key import a decryption primitive is invoked at most
\* once, the envelope parser at most once, every structure parser at most
\* once and every key import routine at most once; a failed decryption is
\* the last stage of the call and its error is the call's result.
C20_NoRetry ==
    \A c \in CallIds :
        LET k == calls[c] IN
        k.op \in PrivateKeyImports
            => /\ Cardinality(Decryptions(k)) <= 1
               /\ Cardinality(EventsOf(k, "pkcs8ParseEncryptedPrivateKeyInfo")) <= 1
               /\ Cardinality(EventsOf(k, "parse")) <= 1
               /\ Cardinality(EventsOf(k, "import")) <= 1
               /\ Cardinality(EventsOf(k, "fill")) <= 1
               /\ \A i \in Decryptions(k) :
                    k.log[i].err # NO_ERROR
                        => /\ \A j \in (i + 1)..Len(k.log) :
                                k.log[j].ev \in {"cryptoFreeMem", "freeKey"}
                           /\ Done(c) => k.error = k.log[i].err

\* A legacy container decrypted once with a wrong password, the call ending
\* with the error of that one attempt
C20_Witness ==
    \E c \in CallIds :
        LET k == calls[c] IN
        /\ Done(c)
        /\ k.op \in PrivateKeyImports
        /\ k.matched \in LegacyPrivateLabels
        /\ k.password = "wrong"
        /\ Cardinality(EventsOf(k, "pemDecryptMessage")) = 1
        /\ k.error = ERROR_DECRYPTION_FAILED

(***************************************************************************)
(* C21                                                                     *)
(***************************************************************************)

RunAlone(a, in, enc, faults) ==
    LET o == Op(a.op)
        order == [i \in 1..Len(o.branches) |-> o.branches[i].label]
        m == FirstDecodable(in, order)
        released == IF o.key THEN EmptyKey ELSE a.key0
        Fail(e) == [error |-> e, key |-> released]
    IN
    IF (a.inputNull /\ ~a.lengthZero) \/ a.outNull
    THEN [error |-> ERROR_INVALID_PARAMETER, key |-> a.key0]
    ELSE IF o.branches[1].kind = "raw"
    THEN [error |-> pemDecodeFile(in, order[1]).err, key |-> a.key0]
    ELSE IF m = ""
    THEN Fail(IF o.chain THEN NoMatchError ELSE pemDecodeFile(in, order[1]).err)
    ELSE
    LET b == o.branches[CHOOSE i \in 1..Len(order) : order[i] = m]
        f == pemDecodeFile(in, m)
        dec == IF b.kind = "legacy" /\ f.marker
               THEN pemDecryptMessage(a.password, f.data, f.n)
               ELSE [err |-> NO_ERROR, data |-> f.data, n |-> f.n]
        env == pkcs8ParseEncryptedPrivateKeyInfo(f.data, f.n)
        p5 == pkcs5Decrypt(a.password, env.data, env.n)
        pin == IF b.kind = "wrapped" THEN p5 ELSE dec
        ps == ParseStructureOf(b.parser, pin.data, pin.n)
        i == IF b.oid # "" THEN [ps.info EXCEPT !.oid = b.oid] ELSE ps.info
        imp == ImportKeyOf(b.importer, o.family, i, a.key0, "import" \in faults)
    IN
    IF b.kind = "typeonly" THEN [error |-> NO_ERROR, key |-> a.key0]
    ELSE IF b.kind = "wrapped" /\ ~enc THEN Fail(EncryptedKeyUnsupportedError)
    ELSE IF "cryptoAllocMem" \in faults THEN Fail(ERROR_OUT_OF_MEMORY)
    ELSE IF "fill" \in faults THEN Fail(ERROR_INVALID_ENCODING)
    ELSE IF b.kind = "wrapped" /\ env.err # NO_ERROR THEN Fail(env.err)
    ELSE IF pin.err # NO_ERROR THEN Fail(pin.err)
    ELSE IF ps.err # NO_ERROR THEN Fail(ps.err)
    ELSE IF b.kind = "dh"
    THEN IF f.data.shape \in {"badp", "badg"} THEN Fail(ERROR_INVALID_SYNTAX)
         ELSE [error |-> NO_ERROR, key |-> Key(KeyVal(m), KeyVal(m))]
    ELSE IF ~o.key
    THEN [error |-> IF x509GetPublicKeyType(i.oid) = X509_KEY_TYPE_UNKNOWN
                    THEN ERROR_WRONG_IDENTIFIER ELSE NO_ERROR,
          key |-> a.key0]
    ELSE IF imp.err # NO_ERROR THEN Fail(imp.err)
    ELSE [error |-> NO_ERROR, key |-> imp.key]

\* A finished call ended as its arguments, input and faults alone determine
EndsAsAlone(c) ==
    LET k == calls[c]
        r == RunAlone(k, input[c], encSupport, InjectedFaults(k))
    IN  k.error = r.error /\ k.key = r.key

\* Every live buffer belongs to exactly the call that allocated it
BuffersOwned ==
    /\ \A b \in BufIds :
         heap[b] # 0 => /\ calls[heap[b]].buf = b
                        /\ calls[heap[b]].bufState = "live"
    /\ \A c \in CallIds :
         calls[c].bufState = "live" => heap[calls[c].buf] = c

\* A step is a step of one call: it leaves the other call's record, the
\* inputs and the other call's buffer alone
StepIsLocal ==
    \E c \in CallIds :
        /\ \A d \in CallIds \ {c} : calls'[d] = calls[d]
        /\ input' = input
        /\ encSupport' = encSupport
        /\ \A b \in BufIds : heap'[b] # heap[b] => {heap[b], heap'[b]} = {0, c}

\* C22: two calls on independent inputs and key objects, interleaved at
\* any stage boundary, each end with the error and the key that the call's
\* own arguments, input and faults determine; every buffer is held only by
\* the call that allocated it, and every step touches only the state of the
\* call that takes it.
C22_CallsAreIndependent ==
    /\ [](/\ BuffersOwned
          /\ \A c \in CallIds : Done(c) => EndsAsAlone(c))
    /\ [][StepIsLocal]_vars

\* Both calls hold a buffer at the same time, and both later end
C22_Witness ==
    /\ Done(1) /\ Done(2)
    /\ calls[1].op # calls[2].op
    /\ calls[1].allocs = 1 /\ calls[2].allocs = 1
    /\ calls[1].buf # calls[2].buf
    /\ calls[1].error = NO_ERROR /\ calls[2].error = NO_ERROR

(***************************************************************************)
(* C23                                                                     *)
(***************************************************************************)

\* Some invocation of collaborator ev succeeded
Succeeded(k, ev) == \E i \in EventsOf(k, ev) : k.log[i].err = NO_ERROR

\* C23: a key import returns NO_ERROR only when a label matched and every
\* stage of its branch succeeded: allocation, filling decode, the legacy
\* decryption if the header is marked, envelope parse and pkcs5Decrypt in
\* the wrapped branch, the structure parse and the key import; on that path
\* the key is never released and is returned populated.
C23_SuccessMeansAllStagesSucceeded ==
    \A c \in CallIds :
        LET k == calls[c]
            b == Op(k.op).branches[k.idx]
        IN
        (Done(c) /\ k.op \in KeyImports /\ k.error = NO_ERROR)
            => /\ k.matched # "" /\ k.matched = b.label
               /\ \A i \in 1..Len(k.log) :
                    k.log[i].err # NO_ERROR
                        => k.log[i].ev = "size" /\ k.log[i].lab # k.matched
               /\ Succeeded(k, "size")
               /\ Succeeded(k, "cryptoAllocMem")
               /\ Succeeded(k, "fill")
               /\ (b.kind = "legacy" /\ input[c][k.matched].marker)
                    => Succeeded(k, "pemDecryptMessage")
               /\ b.kind = "wrapped"
                    => /\ Succeeded(k, "pkcs8ParseEncryptedPrivateKeyInfo")
                       /\ Succeeded(k, "pkcs5Decrypt")
               /\ Succeeded(k, "parse")
               /\ IF b.kind = "dh"
                  THEN Cardinality(EventsOf(k, "asn1ReadMpi")) = 2
                  ELSE Succeeded(k, "import")
               /\ EventsOf(k, "freeKey") = {}
               /\ k.key = Key(KeyVal(k.matched), KeyVal(k.matched))
               /\ k.written = {"f1", "f2"}

\* A successful import through the wrapped branch into a key object that
\* held another key
C23_Witness ==
    \E c \in CallIds :
        LET k == calls[c] IN
        /\ Done(c)
        /\ k.op \in KeyImports
        /\ k.error = NO_ERROR
        /\ k.matched = "ENCRYPTED PRIVATE KEY"
        /\ k.key0 = PriorKey
        /\ k.key = Key(KeyVal(k.matched), KeyVal(k.matched))

(***************************************************************************)
(* C24                                                                     *)
(***************************************************************************)

\* The position of a stage in the program text
StageRank(pc) ==
    CASE pc = "start" -> 0
      [] pc = "size" -> 1
      [] pc = "alloc" -> 2
      [] pc = "fill" -> 3
      [] pc \in {"header", "envelope"} -> 4
      [] pc = "pkcs5" -> 5
      [] pc = "parse" -> 6
      [] pc \in {"import", "classify", "readp"} -> 7
      [] pc = "readg" -> 8
      [] pc = "free" -> 9
      [] pc = "cleanup" -> 10
      [] OTHER -> 11

ErrorCodes ==
    { NO_ERROR, ERROR_INVALID_PARAMETER, ERROR_OUT_OF_MEMORY, ERROR_END_OF_FILE,
      ERROR_DECRYPTION_FAILED, ERROR_WRONG_IDENTIFIER, ERROR_INVALID_SYNTAX,
      ERROR_INVALID_ENCODING }

\* The numbers of collaborator invocations of a call stay within the
\* bounds the program text gives
InvocationsBounded(k) ==
    /\ \A l \in Labels :
         Cardinality({ i \in EventsOf(k, "size") \cup EventsOf(k, "decode") :
                         k.log[i].lab = l })
           <= (IF l \in CandidateLabels(k.op) THEN 1 ELSE 0)
    /\ Cardinality(EventsOf(k, "fill")) <= 1
    /\ Cardinality(EventsOf(k, "cryptoAllocMem")) <= 1
    /\ Cardinality(EventsOf(k, "cryptoFreeMem")) <= 1
    /\ Len(k.log) <= Len(Op(k.op).branches) + 8

\* A step of a call moves it forward in the program text: to a later stage,
\* or to the sizing decode of the next candidate label
MovesForward(c) ==
    calls'[c] # calls[c]
        => \/ StageRank(calls'[c].pc) > StageRank(calls[c].pc)
           \/ /\ calls[c].pc = "size" /\ calls'[c].pc = "size"
              /\ calls'[c].idx = calls[c].idx + 1

\* C24: every call of every operation returns, with NO_ERROR or one error
\* code, after at most one sizing decode per candidate label, at most one
\* allocation and one filling decode, and it never goes back to an earlier
\* stage.
C24_CallsTerminate ==
    /\ <>Done(1)
    /\ [](/\ InvocationsBounded(calls[1])
          /\ Done(1) => calls[1].error \in ErrorCodes)
    /\ [][MovesForward(1)]_vars

\* A call that tried all four candidate labels before it returned
C24_Witness ==
    /\ Done(1)
    /\ Cardinality(EventsOf(calls[1], "size")) = 4
    /\ Cardinality(EventsOf(calls[1], "fill")) = 1
    /\ calls[1].error = NO_ERROR

(***************************************************************************)
(* C25                                                                     *)
(***************************************************************************)

\* The labels that name their algorithm, with the key type they stand for
LegacyKeyType(l) ==
    CASE l \in {"RSA PUBLIC KEY", "RSA PRIVATE KEY"} -> "X509_KEY_TYPE_RSA"
      [] l = "DSA PRIVATE KEY" -> "X509_KEY_TYPE_DSA"
      [] l = "EC PRIVATE KEY" -> "X509_KEY_TYPE_EC"
      [] OTHER -> X509_KEY_TYPE_UNKNOWN

LegacyLabels ==
    {"RSA PUBLIC KEY", "RSA PRIVATE KEY", "DSA PRIVATE KEY", "EC PRIVATE KEY"}

\* C25: pemGetPublicKeyType and pemGetPrivateKeyType never construct or
\* release a key object and write only the key type; when a label that names
\* its algorithm matches they report that algorithm after the sizing decode
\* alone, with no allocation, no filling decode and no structural parse.
C25_TypeQueriesOnlyClassify ==
    \A c \in CallIds :
      LET k == calls[c] IN
        k.op \in TypeQueries
          => /\ k.key = k.key0
             /\ k.written = {}
             /\ EventsOf(k, "freeKey") = {}
             /\ EventsOf(k, "import") = {}
             /\ EventsOf(k, "asn1ReadMpi") = {}
             /\ k.matched \in LegacyLabels
                  => /\ k.log[Len(k.log)].ev = "size"
                     /\ k.log[Len(k.log)].lab = k.matched
                     /\ \A i \in 1..Len(k.log) : k.log[i].ev = "size"
                     /\ k.allocs = 0
                     /\ k.buffer = NoContent /\ k.bufState = "none"
                     /\ k.keyType = LegacyKeyType(k.matched)
                     /\ k.error = NO_ERROR
                     /\ Done(c)

\* pemGetPrivateKeyType answers X509_KEY_TYPE_EC for an "EC PRIVATE KEY"
\* container, the third label it tries
C25_Witness ==
    /\ calls[1].op = "pemGetPrivateKeyType"
    /\ Done(1)
    /\ calls[1].matched = "EC PRIVATE KEY"
    /\ calls[1].keyType = "X509_KEY_TYPE_EC"
    /\ Cardinality(EventsOf(calls[1], "size")) = 3

(***************************************************************************)
(* C26                                                                     *)
(***************************************************************************)

\* The allocation at position i of the log of k requests the length that the
\* sizing decode just before it reported on success
AllocFollowsSizing(k, i) ==
    /\ i >= 2
    /\ k.log[i - 1].ev = "size"
    /\ k.log[i - 1].err = NO_ERROR
    /\ k.log[i].n = k.log[i - 1].n
    /\ k.log[i - 1].lab = Op(k.op).branches[k.idx].label

\* The filling decode at position i of the log of k follows a successful
\* allocation and a successful sizing decode of the same label
FillFollowsAlloc(k, i) ==
    /\ i >= 3
    /\ k.log[i - 1].ev = "cryptoAllocMem"
    /\ k.log[i - 1].err = NO_ERROR
    /\ k.log[i - 2].ev = "size"
    /\ k.log[i - 2].err = NO_ERROR
    /\ k.log[i].lab = k.log[i - 2].lab

\* C26: in every branch the filling decode is invoked only after the sizing
\* decode of the same label succeeded and the buffer allocation succeeded, it
\* uses the label of the sizing decode, and the size requested from the
\* allocator is exactly the length the sizing decode reported.
C26_TwoPhaseDecoding ==
    \A c \in CallIds :
      LET k == calls[c] IN
        /\ \A i \in EventsOf(k, "cryptoAllocMem") : AllocFollowsSizing(k, i)
        /\ \A i \in EventsOf(k, "fill") : FillFollowsAlloc(k, i)
        /\ k.pc = "fill" => /\ Len(k.log) >= 2
                            /\ k.log[Len(k.log)].ev = "cryptoAllocMem"
                            /\ k.log[Len(k.log)].err = NO_ERROR
                            /\ k.bufState = "live"

\* pemImportEcParameters filled the buffer it sized for "PUBLIC KEY", its
\* fourth label
C26_Witness ==
    /\ calls[1].op = "pemImportEcParameters"
    /\ calls[1].matched = "PUBLIC KEY"
    /\ \E i \in EventsOf(calls[1], "fill") :
         /\ calls[1].log[i].err = NO_ERROR
         /\ calls[1].log[i].lab = "PUBLIC KEY"
         /\ calls[1].log[i - 1].n = calls[1].log[i - 2].n
         /\ calls[1].log[i - 1].n > 0

(***************************************************************************)
(* C27                                                                     *)
(***************************************************************************)

\* The label that names the algorithm of a private-key operation
LegacyLabelOf(name) ==
    CASE name = "pemImportRsaPrivateKey" -> "RSA PRIVATE KEY"
      [] name = "pemImportDsaPrivateKey" -> "DSA PRIVATE KEY"
      [] name \in {"pemImportEcPrivateKey", "pemImportEcParameters"} ->
           "EC PRIVATE KEY"
      [] OTHER -> ""

\* The filling decode of the call succeeded and the stage after it is over
PastHeader(k) ==
    /\ k.pc # "header"
    /\ \E f \in EventsOf(k, "fill") : k.log[f].err = NO_ERROR

\* After the filling decode pemDecryptMessage is invoked exactly when the
\* header of the container carries the marker, on the decoded bytes, and
\* the parser is given the decrypted bytes and the decrypted length
MarkerDecidesDecryption(k, cont) ==
    /\ PastHeader(k) => (EventsOf(k, "pemDecryptMessage") # {} <=> cont.marker)
    /\ \A i \in EventsOf(k, "pemDecryptMessage") :
         /\ k.log[i - 1].ev = "fill" /\ k.log[i - 1].err = NO_ERROR
         /\ k.log[i].data = k.log[i - 1].data
         /\ k.log[i].n = k.log[i - 1].n
    /\ \A p \in EventsOf(k, "parse") :
         IF cont.marker
         THEN /\ k.log[p - 1].ev = "pemDecryptMessage"
              /\ k.log[p - 1].err = NO_ERROR
              /\ LET r == pemDecryptMessage(k.password, k.log[p - 1].data,
                                            k.log[p - 1].n)
                 IN  k.log[p].data = r.data /\ k.log[p].n = r.n
         ELSE /\ k.log[p - 1].ev = "fill"
              /\ k.log[p].data = k.log[p - 1].data
              /\ k.log[p].n = k.log[p - 1].n

\* The header is not read: no decryption whatever the marker, and the
\* parser is given the decoded bytes as they are
MarkerIgnored(k) ==
    /\ EventsOf(k, "pemDecryptMessage") = {}
    /\ k.marker = FALSE
    /\ \A p \in EventsOf(k, "parse") :
         /\ k.log[p - 1].ev = "fill"
         /\ k.log[p].data = k.log[p - 1].data
         /\ k.log[p].n = k.log[p - 1].n

\* C27 as stated: in pemImportRsaPrivateKey, pemImportDsaPrivateKey,
\* pemImportEcPrivateKey and pemImportEcParameters a matched label that
\* names the algorithm has its encryption marker inspected after the filling
\* decode and before parsing; pemDecryptMessage is invoked if and only if
\* the marker is "ENCRYPTED", and the parser consumes the decrypted bytes
\* and length.
C27_Original ==
    \A c \in CallIds :
      LET k == calls[c] IN
        (k.matched # "" /\ k.matched = LegacyLabelOf(k.op))
          => MarkerDecidesDecryption(k, input[c][k.matched])

\* C27, amended: the above holds in pemImportRsaPrivateKey,
\* pemImportDsaPrivateKey and pemImportEcPrivateKey; pemImportEcParameters
\* does not read the header of an "EC PRIVATE KEY" container, never invokes
\* pemDecryptMessage, and hands the decoded bytes to the parser as they are.
C27_LegacyMarkerDecidesDecryption ==
    \A c \in CallIds :
      LET k == calls[c] IN
        (k.matched # "" /\ k.matched = LegacyLabelOf(k.op))
          => IF k.op = "pemImportEcParameters"
             THEN MarkerIgnored(k)
             ELSE MarkerDecidesDecryption(k, input[c][k.matched])

\* pemImportDsaPrivateKey parsed the decrypted bytes of an encrypted
\* "DSA PRIVATE KEY" container
C27_Witness ==
    /\ calls[1].op = "pemImportDsaPrivateKey"
    /\ calls[1].matched = "DSA PRIVATE KEY"
    /\ input[1]["DSA PRIVATE KEY"].marker
    /\ \E p \in EventsOf(calls[1], "parse") :
         /\ calls[1].log[p].err = NO_ERROR
         /\ calls[1].log[p].data.form = "plain"
         /\ calls[1].log[p - 1].ev = "pemDecryptMessage"

(***************************************************************************)
(* C28                                                                     *)
(***************************************************************************)

EcParametersOrder ==
    << "EC PARAMETERS", "EC PRIVATE KEY", "PRIVATE KEY", "PUBLIC KEY" >>

\* C28: pemImportEcParameters tries "EC PARAMETERS", "EC PRIVATE KEY",
\* "PRIVATE KEY", "PUBLIC KEY" in this order, takes the branch of the first
\* label whose sizing decode succeeds, never tries "ENCRYPTED PRIVATE KEY",
\* never invokes a decryption primitive, and fails with ERROR_END_OF_FILE
\* when none of the four matches.
C28_EcParametersOrder ==
    \A c \in CallIds :
      LET k == calls[c] IN
        k.op = "pemImportEcParameters"
          => /\ FollowsOrder(c, EcParametersOrder)
             /\ \A i \in 1..Len(k.log) : k.log[i].lab # "ENCRYPTED PRIVATE KEY"
             /\ Decryptions(k) = {}
             /\ EventsOf(k, "pkcs8ParseEncryptedPrivateKeyInfo") = {}
             /\ (Done(c) /\ Validated(k)
                  /\ FirstDecodable(input[c], EcParametersOrder) = "")
                  => /\ k.error = ERROR_END_OF_FILE
                     /\ TriedLabels(k) = EcParametersOrder
                     /\ k.matched = ""

\* pemImportEcParameters took the parameters from an "EC PRIVATE KEY"
\* container whose header carries the encryption marker, the "PRIVATE KEY"
\* container of the input being left aside
C28_Witness ==
    /\ calls[1].op = "pemImportEcParameters"
    /\ Done(1)
    /\ calls[1].matched = "EC PRIVATE KEY"
    /\ input[1]["EC PRIVATE KEY"].marker
    /\ input[1]["PRIVATE KEY"].st = "ok"
    /\ TriedLabels(calls[1]) = << "EC PARAMETERS", "EC PRIVATE KEY" >>

(***************************************************************************)
(* C29                                                                     *)
(***************************************************************************)

EddsaPrivateKeyOrder == << "PRIVATE KEY", "ENCRYPTED PRIVATE KEY" >>

\* C29: pemImportEddsaPrivateKey tries exactly two candidate labels,
\* "PRIVATE KEY" then "ENCRYPTED PRIVATE KEY"; it has no label that names the
\* algorithm, never inspects a header marker and never invokes
\* pemDecryptMessage, and the only decryption it can invoke is pkcs5Decrypt
\* in the "ENCRYPTED PRIVATE KEY" branch.
C29_EddsaPrivateKeyLabels ==
    \A c \in CallIds :
      LET k == calls[c] IN
        k.op = "pemImportEddsaPrivateKey"
          => /\ FollowsOrder(c, EddsaPrivateKeyOrder)
             /\ \A i \in EventsOf(k, "size") \cup EventsOf(k, "fill") :
                  k.log[i].lab \in {"PRIVATE KEY", "ENCRYPTED PRIVATE KEY"}
             /\ (Done(c) /\ Validated(k) /\ k.matched = "")
                  => TriedLabels(k) = EddsaPrivateKeyOrder
             /\ k.pc # "header"
             /\ k.marker = FALSE
             /\ EventsOf(k, "pemDecryptMessage") = {}
             /\ Decryptions(k) # {}
                  => /\ k.matched = "ENCRYPTED PRIVATE KEY"
                     /\ Decryptions(k) = EventsOf(k, "pkcs5Decrypt")
                     /\ Cardinality(Decryptions(k)) = 1

\* pemImportEddsaPrivateKey parsed, without decrypting, a "PRIVATE KEY"
\* container whose header carries the encryption marker
C29_Witness ==
    /\ calls[1].op = "pemImportEddsaPrivateKey"
    /\ calls[1].matched = "PRIVATE KEY"
    /\ input[1]["PRIVATE KEY"].marker
    /\ EventsOf(calls[1], "parse") # {}
    /\ Done(1)

(***************************************************************************)
(* C30                                                                     *)
(***************************************************************************)

PrivateKeyTypeOrder ==
    << "RSA PRIVATE KEY", "DSA PRIVATE KEY", "EC PRIVATE KEY", "PRIVATE KEY" >>

\* The input holds a decodable "ENCRYPTED PRIVATE KEY" container and no
\* other container
OnlyEncryptedPrivateKey(in) ==
    /\ in["ENCRYPTED PRIVATE KEY"].st = "ok"
    /\ \A l \in Labels \ {"ENCRYPTED PRIVATE KEY"} : in[l].st = "absent"

\* C30: pemGetPrivateKeyType tries "RSA PRIVATE KEY", "DSA PRIVATE KEY",
\* "EC PRIVATE KEY", "PRIVATE KEY" in this order and stops at the first that
\* matches; it does not try "ENCRYPTED PRIVATE KEY", so on an input whose
\* only container is an "ENCRYPTED PRIVATE KEY" one it returns
\* ERROR_END_OF_FILE with the key type unknown, while the private-key imports
\* take the branch of that container.
C30_PrivateKeyTypeOrder ==
    \A c \in CallIds :
      LET k == calls[c]
          t == TriedLabels(k)
      IN  /\ k.op = "pemGetPrivateKeyType"
               => /\ IsPrefix(t, PrivateKeyTypeOrder)
                  /\ \A i \in EventsOf(k, "size") : \A j \in EventsOf(k, "size") :
                       i < j => k.log[i].err # NO_ERROR
                  /\ \A i \in 1..Len(k.log) :
                       k.log[i].lab # "ENCRYPTED PRIVATE KEY"
                  /\ k.matched # ""
                       => /\ k.matched = FirstDecodable(input[c], PrivateKeyTypeOrder)
                          /\ t[Len(t)] = k.matched
                  /\ (Done(c) /\ Validated(k))
                       => k.matched = FirstDecodable(input[c], PrivateKeyTypeOrder)
                  /\ (Done(c) /\ Validated(k) /\ OnlyEncryptedPrivateKey(input[c]))
                       => /\ k.error = ERROR_END_OF_FILE
                          /\ k.keyType = X509_KEY_TYPE_UNKNOWN
                          /\ t = PrivateKeyTypeOrder
          /\ (k.op \in PrivateKeyImports /\ Done(c) /\ Validated(k)
                /\ OnlyEncryptedPrivateKey(input[c]))
               => /\ k.matched = "ENCRYPTED PRIVATE KEY"
                  /\ k.error # ERROR_END_OF_FILE

\* pemGetPrivateKeyType returned on an input whose only container is an
\* "ENCRYPTED PRIVATE KEY" one
C30_Witness ==
    /\ calls[1].op = "pemGetPrivateKeyType"
    /\ Done(1)
    /\ OnlyEncryptedPrivateKey(input[1])
    /\ calls[1].error = ERROR_END_OF_FILE
    /\ calls[1].keyType = X509_KEY_TYPE_UNKNOWN

(***************************************************************************)
(* C31                                                                     *)
(***************************************************************************)

\* C31: a call of pemGetPublicKeyType or pemGetPrivateKeyType that passed the
\* parameter checks returns NO_ERROR if and only if the key type it reports
\* is not X509_KEY_TYPE_UNKNOWN: every failing path leaves the key type
\* unknown and every successful path sets a known type.
C31_StatusTellsKeyType ==
    \A c \in CallIds :
      LET k == calls[c] IN
        (k.op \in TypeQueries /\ Done(c) /\ Validated(k))
          => /\ k.error = NO_ERROR <=> k.keyType # X509_KEY_TYPE_UNKNOWN
             /\ k.keyType \in { X509_KEY_TYPE_UNKNOWN, "X509_KEY_TYPE_RSA",
                                "X509_KEY_TYPE_DSA", "X509_KEY_TYPE_EC",
                                "X509_KEY_TYPE_ED25519" }
             /\ k.error # NO_ERROR
                  => k.error \in { ERROR_END_OF_FILE, ERROR_OUT_OF_MEMORY,
                                   ERROR_INVALID_ENCODING, ERROR_INVALID_SYNTAX,
                                   ERROR_WRONG_IDENTIFIER }

\* pemGetPrivateKeyType parsed a "PRIVATE KEY" structure whose algorithm
\* identifier it does not know and returned ERROR_WRONG_IDENTIFIER
C31_Witness ==
    /\ calls[1].op = "pemGetPrivateKeyType"
    /\ Done(1)
    /\ calls[1].matched = "PRIVATE KEY"
    /\ calls[1].error = ERROR_WRONG_IDENTIFIER
    /\ calls[1].keyType = X509_KEY_TYPE_UNKNOWN
    /\ \E p \in EventsOf(calls[1], "parse") : calls[1].log[p].err = NO_ERROR

(***************************************************************************)
(* C32                                                                     *)
(***************************************************************************)

\* The positions of the log where cryptoAllocMem returned NULL
FailedAllocs(k) ==
    { i \in EventsOf(k, "cryptoAllocMem") : k.log[i].err = ERROR_OUT_OF_MEMORY }

\* C32: when cryptoAllocMem fails after a label matched, the call returns
\* ERROR_OUT_OF_MEMORY without a filling decode, a decryption, a parser or a
\* key import, without releasing a buffer, without trying a later label, and,
\* in a key import, after releasing the output key object.
C32_AllocationFailure ==
    \A c \in CallIds :
      LET k == calls[c] IN
        \A i \in FailedAllocs(k) :
          /\ k.matched # "" /\ k.log[i - 1].lab = k.matched
          /\ k.error = ERROR_OUT_OF_MEMORY
          /\ \A j \in 1..Len(k.log) :
               k.log[j].ev \notin (BranchStages \ {"cryptoAllocMem"})
                                    \cup {"cryptoFreeMem"}
          /\ \A j \in (i + 1)..Len(k.log) : k.log[j].ev = "freeKey"
          /\ k.frees = 0 /\ k.allocs = 0 /\ k.bufState = "none"
          /\ k.pc \in {"cleanup", "done"}
          /\ (Done(c) /\ Op(k.op).key)
               => /\ Len(k.log) = i + 1
                  /\ k.log[i + 1].ev = "freeKey"
                  /\ k.key = EmptyKey
          /\ (Done(c) /\ ~Op(k.op).key) => Len(k.log) = i

\* pemImportRsaPrivateKey, handed a key object in use, could not get a buffer
\* for the "PRIVATE KEY" container while an "ENCRYPTED PRIVATE KEY" container
\* was still untried, and returned
C32_Witness ==
    /\ calls[1].op = "pemImportRsaPrivateKey"
    /\ Done(1)
    /\ calls[1].key0 = PriorKey
    /\ calls[1].matched = "PRIVATE KEY"
    /\ input[1]["ENCRYPTED PRIVATE KEY"].st = "ok"
    /\ FailedAllocs(calls[1]) # {}
    /\ calls[1].error = ERROR_OUT_OF_MEMORY

(***************************************************************************)
(* C33                                                                     *)
(***************************************************************************)

SingleLabelOperations ==
    { "pemImportDhParameters", "pemImportDsaPublicKey", "pemImportEcPublicKey",
      "pemImportEddsaPublicKey" }

\* The position in the table of the operation of the label tried at
\* position i of the log
BranchOfEvent(k, i) ==
    CHOOSE j \in 1..Len(Op(k.op).branches) :
      Op(k.op).branches[j].label = k.log[i].lab

\* The failed sizing decode at position i of the log counted as "this label
\* does not match": the next label is the next thing tried, and after the
\* last label the status is ERROR_END_OF_FILE
CountsAsNoMatch(k, i) ==
    LET bs == Op(k.op).branches
        j == BranchOfEvent(k, i)
    IN  IF j < Len(bs)
        THEN /\ Len(k.log) = i => (k.pc = "size" /\ k.idx = j + 1)
             /\ Len(k.log) > i => /\ k.log[i + 1].ev = "size"
                                  /\ k.log[i + 1].lab = bs[j + 1].label
        ELSE /\ k.error = ERROR_END_OF_FILE
             /\ k.matched = ""
             /\ \A m \in (i + 1)..Len(k.log) : k.log[m].ev = "freeKey"

\* C33: in the operations with several candidate labels any error of a
\* sizing decode, not only ERROR_END_OF_FILE, makes the function try the
\* next label, and when all sizing decodes failed it returns
\* ERROR_END_OF_FILE whatever the decoder reported; pemImportDhParameters,
\* pemImportDsaPublicKey, pemImportEcPublicKey and pemImportEddsaPublicKey
\* return the error of their only sizing decode unchanged.
C33_SizingErrors ==
    \A c \in CallIds :
      LET k == calls[c] IN
        \A i \in EventsOf(k, "size") :
          k.log[i].err # NO_ERROR
            => /\ k.log[i].err = pemDecodeFile(input[c], k.log[i].lab).err
               /\ Len(Op(k.op).branches) > 1 => CountsAsNoMatch(k, i)
               /\ k.op \in SingleLabelOperations
                    => /\ k.error = k.log[i].err
                       /\ i = 1
                       /\ \A m \in (i + 1)..Len(k.log) : k.log[m].ev = "freeKey"
                       /\ k.pc \in {"cleanup", "done"}

\* pemImportEcPrivateKey met a container the armor decoder rejects under
\* "PRIVATE KEY", found no other container, and returned ERROR_END_OF_FILE
C33_Witness ==
    /\ calls[1].op = "pemImportEcPrivateKey"
    /\ Done(1)
    /\ input[1]["PRIVATE KEY"].st = "bad"
    /\ \E i \in EventsOf(calls[1], "size") :
         calls[1].log[i].err = ERROR_INVALID_ENCODING
    /\ Cardinality(EventsOf(calls[1], "size")) = 3
    /\ calls[1].error = ERROR_END_OF_FILE

(***************************************************************************)
(* C34                                                                     *)
(***************************************************************************)

\* The positions of the log where asn1ReadMpi was invoked for field f
MpiReads(k, f) == { i \in EventsOf(k, "asn1ReadMpi") : k.log[i].lab = f }

\* C34: pemImportDhParameters reads the enclosing sequence, then the prime
\* modulus p, then the generator g from the bytes that follow p, each only
\* if all the steps before succeeded; it returns NO_ERROR only if the three
\* succeeded, and when reading g fails after p was written both p and g are
\* released before the error is returned.
C34_DhParametersSteps ==
    \A c \in CallIds :
      LET k == calls[c] IN
        k.op = "pemImportDhParameters"
          => /\ \A i \in EventsOf(k, "parse") :
                  /\ k.log[i].lab = "asn1ReadSequence"
                  /\ k.log[i - 1].ev = "fill" /\ k.log[i - 1].err = NO_ERROR
             /\ \A i \in MpiReads(k, "p") :
                  /\ k.log[i - 1].ev = "parse" /\ k.log[i - 1].err = NO_ERROR
                  /\ k.log[i].n = k.log[i - 1].n - TagHeaderLen
             /\ \A i \in MpiReads(k, "g") :
                  /\ k.log[i - 1].ev = "asn1ReadMpi" /\ k.log[i - 1].lab = "p"
                  /\ k.log[i - 1].err = NO_ERROR
                  /\ k.log[i].n < k.log[i - 1].n
             /\ EventsOf(k, "asn1ReadMpi") = MpiReads(k, "p") \cup MpiReads(k, "g")
             /\ Cardinality(MpiReads(k, "p")) <= 1
             /\ Cardinality(MpiReads(k, "g")) <= 1
             /\ (Done(c) /\ Validated(k) /\ k.error = NO_ERROR)
                  => /\ Succeeded(k, "parse")
                     /\ \E i \in MpiReads(k, "p") : k.log[i].err = NO_ERROR
                     /\ \E i \in MpiReads(k, "g") : k.log[i].err = NO_ERROR
                     /\ k.key.f1 # 0 /\ k.key.f2 # 0
             /\ (Done(c) /\ \E i \in MpiReads(k, "g") : k.log[i].err # NO_ERROR)
                  => /\ "f1" \in k.written
                     /\ k.error = ERROR_INVALID_SYNTAX
                     /\ k.key = EmptyKey
                     /\ k.log[Len(k.log)].ev = "freeKey"
                     /\ k.log[Len(k.log) - 1].ev = "cryptoFreeMem"

\* pemImportDhParameters wrote p, failed to read g, and returned with both
\* fields released
C34_Witness ==
    /\ calls[1].op = "pemImportDhParameters"
    /\ Done(1)
    /\ \E i \in MpiReads(calls[1], "g") : calls[1].log[i].err # NO_ERROR
    /\ calls[1].written = {"f1"}
    /\ calls[1].key = EmptyKey
    /\ calls[1].error = ERROR_INVALID_SYNTAX

(***************************************************************************)
(* C35                                                                     *)
(***************************************************************************)

\* The stages of a branch that read the buffer or a region inside it
ReadingStages ==
    { "fill", "header", "envelope", "pkcs5", "parse", "import", "classify",
      "readp", "readg" }

\* C35: in every branch the buffer is released after the last stage that
\* reads it and before the teardown of the key and the return: no
\* decryption, parser or key import runs after the release, and pkcs5Decrypt
\* is handed the encrypted-data region only when
\* pkcs8ParseEncryptedPrivateKeyInfo succeeded.
C35_BufferReleasedLast ==
    \A c \in CallIds :
      LET k == calls[c] IN
        /\ \A f \in EventsOf(k, "cryptoFreeMem") :
             /\ \A i \in 1..Len(k.log) :
                  k.log[i].ev \in BranchStages => i < f
             /\ \A i \in (f + 1)..Len(k.log) : k.log[i].ev = "freeKey"
             /\ k.pc \in {"cleanup", "done"}
        /\ k.pc \in ReadingStages
             => /\ k.bufState = "live"
                /\ k.buf # 0 /\ heap[k.buf] = c
                /\ EventsOf(k, "cryptoFreeMem") = {}
                /\ EventsOf(k, "freeKey") = {}
        /\ (Done(c) /\ Succeeded(k, "cryptoAllocMem"))
             => /\ Cardinality(EventsOf(k, "cryptoFreeMem")) = 1
                /\ k.bufState = "freed"
        /\ \A i \in EventsOf(k, "pkcs5Decrypt") :
             /\ k.log[i - 1].ev = "pkcs8ParseEncryptedPrivateKeyInfo"
             /\ k.log[i - 1].err = NO_ERROR
             /\ LET r == pkcs8ParseEncryptedPrivateKeyInfo(k.log[i - 1].data,
                                                           k.log[i - 1].n)
                IN  k.log[i].data = r.data /\ k.log[i].n = r.n

\* pemImportEcPrivateKey could not parse the envelope of an "ENCRYPTED PRIVATE
\* KEY" container: no decryption was made, the buffer was released, then the
\* key
C35_Witness ==
    /\ calls[1].op = "pemImportEcPrivateKey"
    /\ Done(1)
    /\ calls[1].matched = "ENCRYPTED PRIVATE KEY"
    /\ \E i \in EventsOf(calls[1], "pkcs8ParseEncryptedPrivateKeyInfo") :
         /\ calls[1].log[i].err # NO_ERROR
         /\ calls[1].log[i + 1].ev = "cryptoFreeMem"
         /\ calls[1].log[i + 2].ev = "freeKey"
    /\ EventsOf(calls[1], "pkcs5Decrypt") = {}

(***************************************************************************)
(* C36                                                                     *)
(***************************************************************************)

\* The label of the functions that hand the decoded bytes to the caller
ContainerLabelOf(name) ==
    CASE name = "pemImportCertificate" -> "CERTIFICATE"
      [] name = "pemImportCrl" -> "X509 CRL"
      [] name = "pemImportCsr" -> "CERTIFICATE REQUEST"
      [] OTHER -> ""

\* C36: pemImportCertificate, pemImportCrl and pemImportCsr each make exactly
\* one call of the armor decoder, with the label "CERTIFICATE", "X509 CRL"
\* and "CERTIFICATE REQUEST" respectively, allocate nothing, try no other
\* label, and return the decoder's status unchanged.
C36_ContainerImports ==
    \A c \in CallIds :
      LET k == calls[c] IN
        (ContainerLabelOf(k.op) # "" /\ k.pc # "idle")
          => /\ Len(k.log) <= 1
             /\ \A i \in 1..Len(k.log) :
                  /\ k.log[i].ev = "decode"
                  /\ k.log[i].lab = ContainerLabelOf(k.op)
             /\ k.allocs = 0 /\ k.frees = 0 /\ k.bufState = "none"
             /\ \A b \in BufIds : heap[b] # c
             /\ k.key = k.key0
             /\ (Done(c) /\ Validated(k))
                  => /\ Len(k.log) = 1
                     /\ k.error = pemDecodeFile(input[c],
                                                ContainerLabelOf(k.op)).err
                     /\ k.error = k.log[1].err
             /\ (Done(c) /\ ~Validated(k))
                  => /\ k.log = << >>
                     /\ k.error = ERROR_INVALID_PARAMETER

\* pemImportCrl returned the error of the armor decoder for an "X509 CRL"
\* container that the decoder rejects
C36_Witness ==
    /\ calls[1].op = "pemImportCrl"
    /\ Done(1)
    /\ input[1]["X509 CRL"].st = "bad"
    /\ Len(calls[1].log) = 1
    /\ calls[1].error = ERROR_INVALID_ENCODING

====
